---- MODULE Spec2Model ----
(***************************************************************************)
(* Model of gascraft2d's core (src/src/gascraft2d/core.py): the chunked    *)
(* World (noise terrain, lazy chunk generation, block read/write, region   *)
(* iteration, to_dict/from_dict) and the Inventory.                        *)
(*                                                                         *)
(* Floating point values are carried as integers scaled by ONE (10^-6),    *)
(* angles as micro-radians; math.sin / math.cos are evaluated by range     *)
(* reduction and a Taylor polynomial in that fixed-point arithmetic.       *)
(***************************************************************************)
EXTENDS Integers, Sequences, FiniteSets, TLC

\* ------------------------------------------------------------------------
\* Core constants (core.py:15-17, 44-49)
\* ------------------------------------------------------------------------
TILE_SIZE == 32
CHUNK_SIZE == 16
WORLD_HEIGHT == 180
BASE_SURFACE == 72

BLOCK_AIR == 0
BLOCK_DIRT == 1
BLOCK_STONE == 2
BLOCK_ORE == 3
BLOCK_WOOD == 4
BLOCK_BEDROCK == 5

\* BLOCKS: the ids that have a BlockDef
BLOCKS == {BLOCK_AIR, BLOCK_DIRT, BLOCK_STONE, BLOCK_ORE, BLOCK_WOOD, BLOCK_BEDROCK}

\* ------------------------------------------------------------------------
\* Bounds of the model
\* ------------------------------------------------------------------------
\* chunk indices the operations are called with: -1 .. MaxChunk
MaxChunk == 0
\* world seeds of the modelled sessions (77 is the seed of the serialization
\* test; 1332 has cave and ore noise above threshold in the bottom row)
Seeds == {77, 1332}

ChunkIdx == (-1)..MaxChunk

\* ------------------------------------------------------------------------
\* Fixed-point arithmetic
\* ------------------------------------------------------------------------
ONE == 1000000
TWO_PI == 6283185
PI == 3141593
HALF_PI == 1570796

Min(a, b) == IF a < b THEN a ELSE b
Max(a, b) == IF a > b THEN a ELSE b
Abs(a) == IF a < 0 THEN -a ELSE a

\* int(a / b) for b > 0: Python's int() truncates toward zero
TruncDiv(a, b) == IF a >= 0 THEN a \div b ELSE -((-a) \div b)

\* math.floor(a / b) for b > 0
FloorDiv(a, b) == a \div b

\* product of two non-negative fixed-point numbers (split to stay in range)
FxMul(a, b) ==
    (a \div 1000) * (b \div 1000)
    + ((a \div 1000) * (b % 1000) + (a % 1000) * (b \div 1000)) \div 1000
    + ((a % 1000) * (b % 1000)) \div 1000000

\* one step of a Taylor polynomial in Horner form: 1 - t2 * p / k
Horner(t2, p, k) == ONE - FxMul(t2, p) \div k

\* sin t for 0 <= t <= pi/4, t2 being t * t
SinSeries(t, t2) == FxMul(t, Horner(t2, Horner(t2, ONE - t2 \div 42, 20), 6))

\* cos t for 0 <= t <= pi/4, t2 being t * t
CosSeries(t2) == ONE - FxMul(t2, Horner(t2, Horner(t2, ONE - t2 \div 56, 30), 12)) \div 2

SinPoly(t) == SinSeries(t, FxMul(t, t))

CosPoly(t) == CosSeries(FxMul(t, t))

\* sin t for 0 <= t <= pi/2
SinQuadrant(t) == IF t <= HALF_PI \div 2 THEN SinPoly(t) ELSE CosPoly(HALF_PI - t)

\* the angle of the first quadrant with the same sine, up to sign, as r in
\* 0 .. 2 pi
FoldAngle(r) ==
    IF r <= HALF_PI THEN r
    ELSE IF r <= PI THEN PI - r
    ELSE IF r <= PI + HALF_PI THEN r - PI
    ELSE TWO_PI - r

\* sin r for 0 <= r < 2 pi
SinReduced(r) == (IF r <= PI THEN 1 ELSE -1) * SinQuadrant(FoldAngle(r))

\* math.sin of an angle in micro-radians, result scaled by ONE
Sin(a) == SinReduced(a % TWO_PI)

\* math.cos
Cos(a) == Sin(a + HALF_PI)

\* ------------------------------------------------------------------------
\* World: noise fields (core.py:269-298)
\* ------------------------------------------------------------------------
\* _noise(x, scale, salt): (a*0.6 + b*0.3 + c*0.1 + 1.0) * 0.5
_noise(seed, x, scale, salt) ==
    (Sin((x * 1410000) \div scale + (seed + salt) * 1300) * 6
     + Sin((x * 490000) \div scale + (seed + salt * 2) * 710) * 3
     + Cos((x * 2210000) \div scale + (seed - salt) * 1910)
     + 10 * ONE) \div 20

\* max(22, min(self.height - 24, height))
clamp_surface(height, h) == Max(22, Min(height - 24, h))

_surface_height(seed, height, base_surface, wx) ==
    clamp_surface(height,
        base_surface
        + TruncDiv((_noise(seed, wx, 130, 110) - 500000) * 26
                   + (_noise(seed, wx, 48, 321) - 500000) * 14
                   + (_noise(seed, wx, 18, 690) - 500000) * 7, ONE))

_cave_noise(seed, wx, wy) ==
    (Sin(wx * 81000 + seed * 4100)
     + Cos(wy * 95000 - seed * 3700)
     + Sin((wx + wy) * 61000 + seed * 2700)
     + 3 * ONE) \div 6

_ore_noise(seed, wx, wy) ==
    (Sin(wx * 190000 + seed * 5300)
     + Cos(wy * 170000 - seed * 4400)
     + Cos((wx - wy) * 83000 + seed * 1900)
     + 3 * ONE) \div 6

_tree_noise(seed, wx) == _noise(seed, wx, 13, 999)

\* ------------------------------------------------------------------------
\* World: chunk generation (core.py:300-348)
\* ------------------------------------------------------------------------
\* first loop, one cell: TRUE when the cave noise skips the cell (continue)
cave_carved(seed, surface, wx, wy) ==
    wy > surface + 5 /\ _cave_noise(seed, wx, wy) > 750000

\* first loop, one cell that is not skipped: the block id stored
column_block(seed, height, base_surface, surface, wx, wy) ==
    IF wy > surface + 5 /\ _ore_noise(seed, wx, wy) > 820000
       /\ wy > base_surface + 5
    THEN BLOCK_ORE
    ELSE IF wy = height - 1 THEN BLOCK_BEDROCK
    ELSE IF wy <= surface + 2 THEN BLOCK_DIRT
    ELSE BLOCK_STONE

\* second loop: does a tree spawn in column wx
tree_spawns(seed, wx) ==
    _tree_noise(seed, wx) > 840000 /\ _tree_noise(seed, wx + 1) < 600000

\* the cells of a trunk of height trunk_h and of its crown (all BLOCK_WOOD)
tree_shape(surface, wx, trunk_h) ==
    {k \in {<<wx, surface - 1 - i>> : i \in 0..(trunk_h - 1)} : k[2] > 2}
    \cup {k \in {<<wx + ox, surface - 1 - trunk_h + oy>> :
                    ox \in (-2)..2, oy \in (-2)..1} :
             /\ Abs(k[1] - wx) + Abs(k[2] - (surface - 1 - trunk_h)) <= 3
             /\ k[2] > 1}

\* second loop: the cells written for the tree of column wx
tree_cells(seed, surface, wx) ==
    tree_shape(surface, wx, 3 + TruncDiv(_tree_noise(seed, wx * 2) * 3, ONE))

\* first loop: the keys it stores
filled_cells(seed, height, cols, surfaces) ==
    {k \in cols \X (0..(height - 1)) :
        /\ k[2] >= surfaces[k[1]]
        /\ ~cave_carved(seed, surfaces[k[1]], k[1], k[2])}

\* first loop: the dict `blocks` after it, over the keys `filled`
terrain_blocks(seed, height, base_surface, surfaces, filled) ==
    [k \in filled |->
        column_block(seed, height, base_surface, surfaces[k[1]], k[1], k[2])]

\* second loop: the keys it stores
wood_cells(seed, cols, surfaces) ==
    UNION {tree_cells(seed, surfaces[wx], wx) :
              wx \in {c \in cols : tree_spawns(seed, c)}}

\* the dict `blocks` after both loops, given the dict `surfaces` of the first
blocks_from(seed, height, base_surface, cols, surfaces) ==
    [k \in wood_cells(seed, cols, surfaces) |-> BLOCK_WOOD]
    @@ terrain_blocks(seed, height, base_surface, surfaces,
                      filled_cells(seed, height, cols, surfaces))

\* the dict `blocks` that generate_chunk builds for the columns `cols`
blocks_of_columns(seed, height, base_surface, cols) ==
    CHOOSE blocks \in
        {blocks_from(seed, height, base_surface, cols, surfaces) :
            surfaces \in {[wx \in cols |->
                             _surface_height(seed, height, base_surface, wx)]}} : TRUE

\* the dict `blocks` that generate_chunk builds for chunk_x
generate_blocks(seed, chunk_size, height, base_surface, chunk_x) ==
    blocks_of_columns(seed, height, base_surface,
                      (chunk_x * chunk_size)..(chunk_x * chunk_size + chunk_size - 1))

\* generate_blocks for the seeds and chunk indices of the model, computed once
Terrain ==
    [s \in Seeds \cup {0}, c \in ChunkIdx |->
        generate_blocks(s, CHUNK_SIZE, WORLD_HEIGHT, BASE_SURFACE, c)]

\* ------------------------------------------------------------------------
\* World: state and block access (core.py:262-267, 300-381)
\* ------------------------------------------------------------------------
EmptyMap == [k \in {} |-> 0]

\* World.__init__(seed)
NewWorld(seed) ==
    [seed |-> seed, chunk_size |-> CHUNK_SIZE, height |-> WORLD_HEIGHT,
     base_surface |-> BASE_SURFACE, chunks |-> EmptyMap]

\* the dict generate_chunk stores for chunk_x of world w
blocks_of(w, chunk_x) ==
    IF /\ <<w.seed, chunk_x>> \in DOMAIN Terrain
       /\ w.chunk_size = CHUNK_SIZE /\ w.height = WORLD_HEIGHT
       /\ w.base_surface = BASE_SURFACE
    THEN Terrain[w.seed, chunk_x]
    ELSE generate_blocks(w.seed, w.chunk_size, w.height, w.base_surface, chunk_x)

\* generate_chunk without the `if chunk_x in self.chunks: return` guard
generate_chunk_always(w, chunk_x) ==
    [w EXCEPT !.chunks = (chunk_x :> blocks_of(w, chunk_x)) @@ @]

\* generate_chunk whose `blocks` dict starts from the cells of a chunk
\* generated earlier instead of empty
generate_chunk_shared(w, chunk_x) ==
    IF chunk_x \in DOMAIN w.chunks
    THEN w
    ELSE IF DOMAIN w.chunks = {}
    THEN [w EXCEPT !.chunks = (chunk_x :> blocks_of(w, chunk_x)) @@ @]
    ELSE [w EXCEPT !.chunks =
            (chunk_x :> (blocks_of(w, chunk_x)
                         @@ w.chunks[CHOOSE c \in DOMAIN w.chunks : TRUE])) @@ @]

generate_chunk(w, chunk_x) ==
    IF chunk_x \in DOMAIN w.chunks
    THEN w
    ELSE [w EXCEPT !.chunks = (chunk_x :> blocks_of(w, chunk_x)) @@ @]

RECURSIVE ensure_chunks(_, _, _)
ensure_chunks(w, min_chunk, max_chunk) ==
    IF min_chunk > max_chunk
    THEN w
    ELSE ensure_chunks(generate_chunk(w, min_chunk), min_chunk + 1, max_chunk)

\* dict.get(key, BLOCK_AIR)
dict_get(chunk, key) == IF key \in DOMAIN chunk THEN chunk[key] ELSE BLOCK_AIR

\* dict.pop(key, None)
dict_pop(chunk, key) ==
    IF key \in DOMAIN chunk
    THEN [k \in DOMAIN chunk \ {key} |-> chunk[k]]
    ELSE chunk

\* chunk[key] = block_id
dict_put(chunk, key, block_id) ==
    IF key \in DOMAIN chunk
    THEN [chunk EXCEPT ![key] = block_id]
    ELSE (key :> block_id) @@ chunk

\* self.chunks[cx].get((wx, wy), BLOCK_AIR) in the World g that
\* generate_chunk left: the world after the call and the value returned
chunk_lookup(g, cx, wx, wy) ==
    [world |-> g, ret |-> dict_get(g.chunks[cx], <<wx, wy>>)]

\* get_block that clamps wy into the world instead of returning air
get_block_clamped(w, wx, wy) ==
    chunk_lookup(generate_chunk(w, FloorDiv(wx, w.chunk_size)),
                 FloorDiv(wx, w.chunk_size), wx, Max(0, Min(w.height - 1, wy)))

\* get_block whose chunk index is int(wx / chunk_size), rounded towards zero
get_block_truncated(w, wx, wy) ==
    IF wy < 0 \/ wy >= w.height
    THEN [world |-> w, ret |-> BLOCK_AIR]
    ELSE chunk_lookup(generate_chunk(w, TruncDiv(wx, w.chunk_size)),
                      TruncDiv(wx, w.chunk_size), wx, wy)

\* get_block: the world after the call (lazy generation) and the value returned
get_block(w, wx, wy) ==
    IF wy < 0 \/ wy >= w.height
    THEN [world |-> w, ret |-> BLOCK_AIR]
    ELSE chunk_lookup(generate_chunk(w, FloorDiv(wx, w.chunk_size)),
                      FloorDiv(wx, w.chunk_size), wx, wy)

\* the two branches of set_block in the World g that generate_chunk left
chunk_store(g, cx, key, block_id) ==
    IF block_id = BLOCK_AIR
    THEN [g EXCEPT !.chunks[cx] = dict_pop(@, key)]
    ELSE [g EXCEPT !.chunks[cx] = dict_put(@, key, block_id)]

\* chunk_store that ignores a write of air
chunk_store_keeps_air(g, cx, key, block_id) ==
    IF block_id = BLOCK_AIR
    THEN g
    ELSE [g EXCEPT !.chunks[cx] = dict_put(@, key, block_id)]

\* set_block that stores non-air ids only and ignores a write of air
set_block_keeps_air(w, wx, wy, block_id) ==
    IF wy < 0 \/ wy >= w.height
    THEN w
    ELSE chunk_store_keeps_air(generate_chunk(w, FloorDiv(wx, w.chunk_size)),
                               FloorDiv(wx, w.chunk_size), <<wx, wy>>, block_id)

\* set_block whose chunk index is int(wx / chunk_size), rounded towards zero
set_block_truncated(w, wx, wy, block_id) ==
    IF wy < 0 \/ wy >= w.height
    THEN w
    ELSE chunk_store(generate_chunk(w, TruncDiv(wx, w.chunk_size)),
                     TruncDiv(wx, w.chunk_size), <<wx, wy>>, block_id)

set_block(w, wx, wy, block_id) ==
    IF wy < 0 \/ wy >= w.height
    THEN w
    ELSE chunk_store(generate_chunk(w, FloorDiv(wx, w.chunk_size)),
                     FloorDiv(wx, w.chunk_size), <<wx, wy>>, block_id)

\* a finite set as a sequence, in some fixed order (dict iteration order is
\* not part of the contract)
RECURSIVE SetToSeq(_)
SetToSeq(S) ==
    IF S = {} THEN <<>>
    ELSE LET e == CHOOSE e \in S : TRUE IN <<e>> \o SetToSeq(S \ {e})

\* visible_in_chunk with the upper bounds taken as exclusive
visible_in_chunk_exclusive(chunk, min_wx, max_wx, min_wy, max_wy) ==
    LET keys == {k \in DOMAIN chunk :
                    /\ min_wx <= k[1] /\ k[1] < max_wx
                    /\ min_wy <= k[2] /\ k[2] < max_wy}
        ks == SetToSeq(keys)
    IN  [i \in 1..Len(ks) |-> <<ks[i][1], ks[i][2], chunk[ks[i]]>>]

\* the triples iter_visible_blocks yields from one chunk
visible_in_chunk(chunk, min_wx, max_wx, min_wy, max_wy) ==
    LET keys == {k \in DOMAIN chunk :
                    /\ min_wx <= k[1] /\ k[1] <= max_wx
                    /\ min_wy <= k[2] /\ k[2] <= max_wy}
        ks == SetToSeq(keys)
    IN  [i \in 1..Len(ks) |-> <<ks[i][1], ks[i][2], chunk[ks[i]]>>]

RECURSIVE visible_from(_, _, _, _, _, _, _)
visible_from(w, cx, max_cx, min_wx, max_wx, min_wy, max_wy) ==
    IF cx > max_cx
    THEN <<>>
    ELSE visible_in_chunk(w.chunks[cx], min_wx, max_wx, min_wy, max_wy)
         \o visible_from(w, cx + 1, max_cx, min_wx, max_wx, min_wy, max_wy)

\* the loop of iter_visible_blocks in the World g that ensure_chunks left
visible_after(g, min_cx, max_cx, min_wx, max_wx, min_wy, max_wy) ==
    [world |-> g,
     ret |-> visible_from(g, min_cx, max_cx, min_wx, max_wx, min_wy, max_wy)]

\* iter_visible_blocks consumed to its end: the world after the call and the
\* sequence of (wx, wy, block_id) yielded
iter_visible_blocks(w, min_wx, max_wx, min_wy, max_wy) ==
    visible_after(ensure_chunks(w, FloorDiv(min_wx, w.chunk_size),
                                FloorDiv(max_wx, w.chunk_size)),
                  FloorDiv(min_wx, w.chunk_size), FloorDiv(max_wx, w.chunk_size),
                  min_wx, max_wx, min_wy, max_wy)

\* ------------------------------------------------------------------------
\* Values of a persisted record: every value carries its Python type
\* ------------------------------------------------------------------------
PyInt(n) == [t |-> "int", v |-> n]
\* a str is the sequence of its characters
PyStr(chars) == [t |-> "str", v |-> chars]
PyNone == [t |-> "none", v |-> 0]
PyList(elems) == [t |-> "list", v |-> elems]
\* a dict with str keys is the sequence of its (key, value) items
PyDict(items) == [t |-> "dict", v |-> items]
\* a float is the fraction n / d
PyFloat(n, d) == [t |-> "float", v |-> <<n, d>>]

Digits == <<"0", "1", "2", "3", "4", "5", "6", "7", "8", "9">>
IsDigit(c) == \E d \in 1..10 : Digits[d] = c
DigitOf(c) == (CHOOSE d \in 1..10 : Digits[d] = c) - 1

RECURSIVE digits_of(_)
digits_of(n) ==
    IF n < 10 THEN <<Digits[n + 1]>>
    ELSE digits_of(n \div 10) \o <<Digits[(n % 10) + 1]>>

\* str(n) that drops the sign
py_str_unsigned(n) == IF n < 0 THEN digits_of(-n) ELSE digits_of(n)

\* str(n) of an int
py_str(n) == IF n < 0 THEN <<"-">> \o digits_of(-n) ELSE digits_of(n)

numeral_body(chars) ==
    IF Len(chars) > 0 /\ chars[1] \in {"-", "+"} THEN Tail(chars) ELSE chars

\* int(str) accepts an optional sign and decimal digits (surrounding blanks
\* and digit-group underscores, which it also accepts, are not modelled)
is_numeral(chars) ==
    LET body == numeral_body(chars)
    IN  Len(body) > 0 /\ \A i \in 1..Len(body) : IsDigit(body[i])

RECURSIVE digits_value(_)
digits_value(body) ==
    IF Len(body) = 0 THEN 0
    ELSE digits_value(SubSeq(body, 1, Len(body) - 1)) * 10 + DigitOf(body[Len(body)])

\* int(value) raises: ValueError for a str that is no numeral, TypeError for
\* None, a list or a dict
int_raises(value) ==
    CASE value.t = "int" -> FALSE
      [] value.t = "float" -> FALSE
      [] value.t = "str" -> ~is_numeral(value.v)
      [] OTHER -> TRUE

\* int(value) where it does not raise; a float is cut towards zero
py_int(value) ==
    IF value.t = "int" THEN value.v
    ELSE IF value.t = "float" THEN TruncDiv(value.v[1], value.v[2])
    ELSE IF value.v[1] = "-" THEN -digits_value(numeral_body(value.v))
    ELSE digits_value(numeral_body(value.v))

\* float(value) raises: ValueError for a str that is no number, TypeError for
\* None, a list or a dict (of the strs float() accepts, the numerals of
\* int() are modelled)
float_raises(value) ==
    CASE value.t = "int" -> FALSE
      [] value.t = "float" -> FALSE
      [] value.t = "str" -> ~is_numeral(value.v)
      [] OTHER -> TRUE

\* float(value) where it does not raise, in units of 1 / unit
py_float(value, unit) ==
    IF value.t = "float"
    THEN IF value.v[2] = unit THEN value.v[1]
         ELSE (2 * value.v[1] * unit + value.v[2]) \div (2 * value.v[2])
    ELSE py_int(value) * unit

\* _as_int (core.py:118-121)
_as_int(value, default) == IF value.t = "int" THEN value.v ELSE default

\* data.get(key, default)
data_get(data, key, default) == IF key \in DOMAIN data THEN data[key] ELSE default

\* ------------------------------------------------------------------------
\* World: to_dict / from_dict (core.py:383-414)
\* ------------------------------------------------------------------------
SetMin(S) == CHOOSE m \in S : \A e \in S : m <= e
SetMax(S) == CHOOSE m \in S : \A e \in S : m >= e

\* chunk.items(): the keys of a chunk dict in one fixed order (column by
\* column, top to bottom)
chunk_keys(chunk) ==
    IF DOMAIN chunk = {} THEN <<>>
    ELSE LET x0 == SetMin({k[1] : k \in DOMAIN chunk})
             x1 == SetMax({k[1] : k \in DOMAIN chunk})
             y0 == SetMin({k[2] : k \in DOMAIN chunk})
             y1 == SetMax({k[2] : k \in DOMAIN chunk})
         IN  \* bound once, so the scan below does not recompute them
             CHOOSE ks \in
               {SelectSeq([i \in 1..((c[2] - c[1] + 1) * (c[4] - c[3] + 1)) |->
                              <<c[1] + (i - 1) \div (c[4] - c[3] + 1),
                                c[3] + ((i - 1) % (c[4] - c[3] + 1))>>],
                          LAMBDA k : k \in DOMAIN chunk) :
                  c \in {<<x0, x1, y0, y1>>}} : TRUE

\* [[wx, wy, block_id] for (wx, wy), block_id in chunk.items()]
serialized_chunk(chunk) ==
    CHOOSE entries \in
      {PyList([i \in 1..Len(ks) |->
                 PyList(<<PyInt(ks[i][1]), PyInt(ks[i][2]), PyInt(chunk[ks[i]])>>)]) :
         ks \in {chunk_keys(chunk)}} : TRUE

\* World.to_dict
world_to_dict(w) ==
    [seed |-> PyInt(w.seed),
     chunk_size |-> PyInt(w.chunk_size),
     height |-> PyInt(w.height),
     chunks |-> CHOOSE d \in
                  {PyDict([i \in 1..Len(cs) |->
                             <<py_str(cs[i]), serialized_chunk(w.chunks[cs[i]])>>]) :
                     cs \in {SetToSeq(DOMAIN w.chunks)}} : TRUE]

\* from_dict keeps an entry when it is a list of three elements
entry_kept(entry) == entry.t = "list" /\ Len(entry.v) = 3

\* int(entry[0]), int(entry[1]), int(entry[2]) of a kept entry raises
entry_raises(entry) ==
    entry_kept(entry) /\ \E i \in 1..3 : int_raises(entry.v[i])

\* the inner loop of from_dict over entries[lo..hi]: later entries overwrite
\* earlier ones
RECURSIVE chunk_from_entries(_, _, _)
chunk_from_entries(entries, lo, hi) ==
    IF lo > hi THEN EmptyMap
    ELSE IF lo = hi
    THEN IF entry_kept(entries[lo])
         THEN <<py_int(entries[lo].v[1]), py_int(entries[lo].v[2])>>
                 :> py_int(entries[lo].v[3])
         ELSE EmptyMap
    ELSE chunk_from_entries(entries, (lo + hi) \div 2 + 1, hi)
         @@ chunk_from_entries(entries, lo, (lo + hi) \div 2)

\* the chunk dict from_dict builds from one value of raw_chunks
chunk_from(entries) ==
    IF entries.t = "list"
    THEN chunk_from_entries(entries.v, 1, Len(entries.v))
    ELSE EmptyMap

\* the outer loop of from_dict over the first n items of raw_chunks
RECURSIVE chunks_from_items(_, _)
chunks_from_items(items, n) ==
    IF n = 0 THEN EmptyMap
    ELSE (py_int(PyStr(items[n][1])) :> chunk_from(items[n][2]))
         @@ chunks_from_items(items, n - 1)

\* from_dict raises: int(key) of a chunk key, or int() of an element of a
\* kept entry
from_dict_raises(data) ==
    LET raw_chunks == data_get(data, "chunks", PyDict(<<>>))
    IN  /\ raw_chunks.t = "dict"
        /\ \E n \in 1..Len(raw_chunks.v) :
              \/ int_raises(PyStr(raw_chunks.v[n][1]))
              \/ /\ raw_chunks.v[n][2].t = "list"
                 /\ \E j \in 1..Len(raw_chunks.v[n][2].v) :
                       entry_raises(raw_chunks.v[n][2].v[j])

\* World.from_dict with random.randint drawing rnd: whether it raised, and
\* the World it returns when it did not
world_from_dict(data, rnd) ==
    LET raw_chunks == data_get(data, "chunks", PyDict(<<>>))
    IN  IF from_dict_raises(data)
        THEN [raised |-> TRUE, world |-> NewWorld(0)]
        ELSE [raised |-> FALSE,
              world |->
                [seed |-> _as_int(data_get(data, "seed", PyInt(rnd)), 0),
                 chunk_size |-> _as_int(data_get(data, "chunk_size", PyInt(CHUNK_SIZE)),
                                        CHUNK_SIZE),
                 height |-> _as_int(data_get(data, "height", PyInt(WORLD_HEIGHT)),
                                    WORLD_HEIGHT),
                 base_surface |-> BASE_SURFACE,
                 chunks |-> IF raw_chunks.t = "dict"
                            THEN chunks_from_items(raw_chunks.v, Len(raw_chunks.v))
                            ELSE EmptyMap]]

\* ------------------------------------------------------------------------
\* Inventory (core.py:124-152)
\* ------------------------------------------------------------------------
\* an Optional[ItemStack] is a sequence of at most one stack
None == <<>>
ItemStack(block_id, count) == <<[block_id |-> block_id, count |-> count]>>

\* add_item's first loop, from slot i on: top up the stacks of block_id that
\* hold fewer than 999; `returned` says the loop hit its `return True`
RECURSIVE add_item_stacks(_, _, _, _)
add_item_stacks(slots, i, block_id, remaining) ==
    IF i > Len(slots)
    THEN [slots |-> slots, remaining |-> remaining, returned |-> FALSE]
    ELSE IF slots[i] # None /\ slots[i][1].block_id = block_id /\ slots[i][1].count < 999
    THEN LET add == Min(999 - slots[i][1].count, remaining)
             topped == [slots EXCEPT ![i][1].count = @ + add]
         IN  IF remaining - add = 0
             THEN [slots |-> topped, remaining |-> 0, returned |-> TRUE]
             ELSE add_item_stacks(topped, i + 1, block_id, remaining - add)
    ELSE add_item_stacks(slots, i + 1, block_id, remaining)

\* add_item's second loop, from slot i on: a new stack of at most 999 in each
\* empty slot
RECURSIVE add_item_empty(_, _, _, _)
add_item_empty(slots, i, block_id, remaining) ==
    IF i > Len(slots)
    THEN [slots |-> slots, remaining |-> remaining, returned |-> FALSE]
    ELSE IF slots[i] = None
    THEN LET add == Min(999, remaining)
             filled == [slots EXCEPT ![i] = ItemStack(block_id, add)]
         IN  IF remaining - add = 0
             THEN [slots |-> filled, remaining |-> 0, returned |-> TRUE]
             ELSE add_item_empty(filled, i + 1, block_id, remaining - add)
    ELSE add_item_empty(slots, i + 1, block_id, remaining)

\* add_item without its `block_id == BLOCK_AIR or count <= 0` rejection
add_item_unguarded(inv, block_id, count) ==
    LET first == add_item_stacks(inv.slots, 1, block_id, count)
        second == add_item_empty(first.slots, 1, block_id, first.remaining)
    IN  IF first.returned
        THEN [inv |-> [inv EXCEPT !.slots = first.slots], ret |-> TRUE]
        ELSE [inv |-> [inv EXCEPT !.slots = second.slots],
              ret |-> second.returned \/ second.remaining = 0]

\* add_item without its first loop: every unit goes to a new stack
add_item_new_stacks(inv, block_id, count) ==
    IF block_id = BLOCK_AIR \/ count <= 0
    THEN [inv |-> inv, ret |-> FALSE]
    ELSE [inv |-> [inv EXCEPT !.slots =
                     add_item_empty(inv.slots, 1, block_id, count).slots],
          ret |-> add_item_empty(inv.slots, 1, block_id, count).remaining = 0]

\* add_item: the inventory after the call and the value returned
add_item(inv, block_id, count) ==
    IF block_id = BLOCK_AIR \/ count <= 0
    THEN [inv |-> inv, ret |-> FALSE]
    ELSE LET first == add_item_stacks(inv.slots, 1, block_id, count)
             second == add_item_empty(first.slots, 1, block_id, first.remaining)
         IN  IF first.returned
             THEN [inv |-> [inv EXCEPT !.slots = first.slots], ret |-> TRUE]
             ELSE [inv |-> [inv EXCEPT !.slots = second.slots],
                   ret |-> second.returned \/ second.remaining = 0]

\* Inventory.__init__
NewInventory ==
    LET empty == [slots |-> [i \in 1..27 |-> None],
                  selected_hotbar |-> 0,
                  dragging |-> None]
    IN  add_item(add_item(add_item(empty, BLOCK_DIRT, 48).inv,
                          BLOCK_STONE, 16).inv,
                 BLOCK_WOOD, 16).inv

\* self.slots[i] for a Python index i: the position read in the 1-based
\* sequence (a negative index counts from the end), 0 when it raises IndexError
py_index(slots, i) ==
    IF 0 <= i /\ i < Len(slots) THEN i + 1
    ELSE IF -Len(slots) <= i /\ i < 0 THEN Len(slots) + i + 1
    ELSE 0

\* the slots after `stack.count -= amount` on position pos, the slot set to
\* None when the count reaches 0
take_from_slot(slots, pos, amount) ==
    IF slots[pos][1].count - amount = 0
    THEN [slots EXCEPT ![pos] = None]
    ELSE [slots EXCEPT ![pos][1].count = @ - amount]

\* consume_selected that takes the units even when the stack holds fewer
consume_selected_unchecked(inv, amount) ==
    IF py_index(inv.slots, inv.selected_hotbar) = 0
    THEN [inv |-> inv, ret |-> None, raised |-> TRUE]
    ELSE IF inv.slots[py_index(inv.slots, inv.selected_hotbar)] = None
    THEN [inv |-> inv, ret |-> None, raised |-> FALSE]
    ELSE [inv |-> [inv EXCEPT !.slots =
                     take_from_slot(@, py_index(inv.slots, inv.selected_hotbar), amount)],
          ret |-> <<inv.slots[py_index(inv.slots, inv.selected_hotbar)][1].block_id>>,
          raised |-> FALSE]

\* consume_selected: the inventory after the call, the value returned (None
\* or the block id) and whether self.slots[slot] raised IndexError
consume_selected(inv, amount) ==
    IF py_index(inv.slots, inv.selected_hotbar) = 0
    THEN [inv |-> inv, ret |-> None, raised |-> TRUE]
    ELSE IF \/ inv.slots[py_index(inv.slots, inv.selected_hotbar)] = None
            \/ inv.slots[py_index(inv.slots, inv.selected_hotbar)][1].count < amount
    THEN [inv |-> inv, ret |-> None, raised |-> FALSE]
    ELSE [inv |-> [inv EXCEPT !.slots =
                     take_from_slot(@, py_index(inv.slots, inv.selected_hotbar), amount)],
          ret |-> <<inv.slots[py_index(inv.slots, inv.selected_hotbar)][1].block_id>>,
          raised |-> FALSE]

\* has_items: the loop's total over slots i..27
RECURSIVE total_from(_, _, _)
total_from(slots, i, block_id) ==
    IF i > Len(slots) THEN 0
    ELSE (IF slots[i] # None /\ slots[i][1].block_id = block_id
          THEN slots[i][1].count ELSE 0)
         + total_from(slots, i + 1, block_id)

has_items(inv, block_id, count) == total_from(inv.slots, 1, block_id) >= count

\* remove_items' loop from slot i on
RECURSIVE remove_from(_, _, _, _)
remove_from(slots, i, block_id, remaining) ==
    IF i > Len(slots) THEN slots
    ELSE IF slots[i] = None \/ slots[i][1].block_id # block_id
    THEN remove_from(slots, i + 1, block_id, remaining)
    ELSE IF remaining - Min(slots[i][1].count, remaining) = 0
    THEN take_from_slot(slots, i, Min(slots[i][1].count, remaining))
    ELSE remove_from(take_from_slot(slots, i, Min(slots[i][1].count, remaining)),
                     i + 1, block_id, remaining - Min(slots[i][1].count, remaining))

\* remove_items: the inventory after the call and the value returned
remove_items(inv, block_id, count) ==
    IF ~has_items(inv, block_id, count)
    THEN [inv |-> inv, ret |-> FALSE]
    ELSE [inv |-> [inv EXCEPT !.slots = remove_from(@, 1, block_id, count)],
          ret |-> TRUE]

\* click_slot, last branch: the dragged stack merged into slot pos, both of
\* the same block and the slot below 999
merge_dragged(inv, pos, add) ==
    [inv EXCEPT !.slots[pos][1].count = @ + add,
                !.dragging = IF inv.dragging[1].count - add <= 0
                             THEN None
                             ELSE <<[inv.dragging[1] EXCEPT !.count = @ - add]>>]

\* click_slot that merges without the 999 cap
click_slot_uncapped(inv, index) ==
    IF inv.dragging = None
    THEN [inv EXCEPT !.dragging = inv.slots[index + 1], !.slots[index + 1] = None]
    ELSE IF inv.slots[index + 1] = None
    THEN [inv EXCEPT !.slots[index + 1] = inv.dragging, !.dragging = None]
    ELSE IF inv.slots[index + 1][1].block_id = inv.dragging[1].block_id
    THEN merge_dragged(inv, index + 1, inv.dragging[1].count)
    ELSE [inv EXCEPT !.slots[index + 1] = inv.dragging,
                     !.dragging = inv.slots[index + 1]]

\* click_slot that never merges: a click on an occupied slot exchanges
click_slot_exchange(inv, index) ==
    [inv EXCEPT !.slots[index + 1] = inv.dragging,
                !.dragging = inv.slots[index + 1]]

\* click_slot(index) for 0 <= index < 27
click_slot(inv, index) ==
    IF inv.dragging = None
    THEN [inv EXCEPT !.dragging = inv.slots[index + 1], !.slots[index + 1] = None]
    ELSE IF inv.slots[index + 1] = None
    THEN [inv EXCEPT !.slots[index + 1] = inv.dragging, !.dragging = None]
    ELSE IF /\ inv.slots[index + 1][1].block_id = inv.dragging[1].block_id
            /\ inv.slots[index + 1][1].count < 999
    THEN merge_dragged(inv, index + 1,
                       Min(999 - inv.slots[index + 1][1].count, inv.dragging[1].count))
    ELSE [inv EXCEPT !.slots[index + 1] = inv.dragging,
                     !.dragging = inv.slots[index + 1]]

\* BLOCKS[block_id].placeable: every block but air
placeable(block_id) == block_id # BLOCK_AIR

\* get_selected_block: the value returned (None or the block id) and whether
\* self.slots[...] raised IndexError or BLOCKS[...] raised KeyError
get_selected_block(inv) ==
    IF py_index(inv.slots, inv.selected_hotbar) = 0
    THEN [ret |-> None, raised |-> TRUE]
    ELSE IF inv.slots[py_index(inv.slots, inv.selected_hotbar)] = None
    THEN [ret |-> None, raised |-> FALSE]
    ELSE IF inv.slots[py_index(inv.slots, inv.selected_hotbar)][1].block_id \notin BLOCKS
    THEN [ret |-> None, raised |-> TRUE]
    ELSE IF ~placeable(inv.slots[py_index(inv.slots, inv.selected_hotbar)][1].block_id)
    THEN [ret |-> None, raised |-> FALSE]
    ELSE [ret |-> <<inv.slots[py_index(inv.slots, inv.selected_hotbar)][1].block_id>>,
          raised |-> FALSE]

\* a dict that is read by key only is the function from its keys
PyMapping(fields) == [t |-> "dict", v |-> fields]

\* ItemStack.to_dict
stack_to_dict(stack) ==
    PyMapping([block_id |-> PyInt(stack[1].block_id), count |-> PyInt(stack[1].count)])

\* Inventory.to_dict
inventory_to_dict(inv) ==
    [selected_hotbar |-> PyInt(inv.selected_hotbar),
     slots |-> PyList([i \in 1..Len(inv.slots) |->
                         IF inv.slots[i] # None THEN stack_to_dict(inv.slots[i])
                         ELSE PyNone])]

\* ItemStack.from_dict(entry) raises: entry["block_id"] or entry["count"] is
\* a TypeError when entry is no mapping and a KeyError when the key is absent
stack_from_dict_raises(entry) ==
    \/ entry.t # "dict"
    \/ "block_id" \notin DOMAIN entry.v
    \/ "count" \notin DOMAIN entry.v

\* ItemStack.from_dict(entry) where it does not raise: the two values are
\* stored as they are
stack_from_dict(entry) == ItemStack(entry.v["block_id"].v, entry.v["count"].v)

\* the loop of Inventory.from_dict from entry i on, `slots` being self.slots
\* so far; a raise leaves self.slots as the loop has it
RECURSIVE slots_from_entries(_, _, _)
slots_from_entries(entries, i, slots) ==
    IF i > Len(entries) THEN [slots |-> slots, raised |-> FALSE]
    ELSE IF entries[i].t = "none"
    THEN slots_from_entries(entries, i + 1, Append(slots, None))
    ELSE IF stack_from_dict_raises(entries[i])
    THEN [slots |-> slots, raised |-> TRUE]
    ELSE slots_from_entries(entries, i + 1, Append(slots, stack_from_dict(entries[i])))

\* extend with None up to 27 slots, then self.slots[:27]
pad_slots(slots) ==
    IF Len(slots) < 27
    THEN slots \o [i \in 1..(27 - Len(slots)) |-> None]
    ELSE SubSeq(slots, 1, 27)

\* data.get("slots", []), replaced by [] when it is no list
raw_slots_of(data) ==
    IF data_get(data, "slots", PyList(<<>>)).t = "list"
    THEN data_get(data, "slots", PyList(<<>>)).v
    ELSE <<>>

\* Inventory.from_dict: the inventory after the call and whether it raised
inventory_from_dict(inv, data) ==
    IF slots_from_entries(raw_slots_of(data), 1, <<>>).raised
    THEN [inv |-> [inv EXCEPT
                     !.selected_hotbar =
                        _as_int(data_get(data, "selected_hotbar", PyInt(0)), 0),
                     !.slots = slots_from_entries(raw_slots_of(data), 1, <<>>).slots],
          raised |-> TRUE]
    ELSE [inv |-> [inv EXCEPT
                     !.selected_hotbar =
                        _as_int(data_get(data, "selected_hotbar", PyInt(0)), 0),
                     !.slots = pad_slots(
                        slots_from_entries(raw_slots_of(data), 1, <<>>).slots)],
          raised |-> FALSE]

\* ------------------------------------------------------------------------
\* Player (core.py:417-504). The floats of the code are fixed-point numbers:
\* a position counts 1/120000 pixel, a velocity 1/1000 pixel per second, and
\* dt is 1/dtInv second for dtInv in {60, 120}; gravity * dt and v * dt are
\* then whole numbers
\* ------------------------------------------------------------------------
\* one pixel in position units, one pixel per second in velocity units
PX == 120000
MILLI == 1000
\* a float within this distance of a whole number of pixels may lie on either
\* side of it (0.001 pixel)
Tol == PX \div 1000

\* a / b rounded to the nearest whole number, b > 0
RoundDiv(a, b) == (2 * a + b) \div (2 * b)

\* Player.__init__
player_width == TruncDiv(TILE_SIZE * 72, 100)
player_height == TruncDiv(TILE_SIZE * 162, 100)
speed == 290 * MILLI
accel_ground == 115
accel_air == 65
friction == 95
gravity == 1320 * MILLI
jump_force == 545 * MILLI
max_fall == 1200 * MILLI

NewPlayer(x, y) ==
    [x |-> x * PX, y |-> y * PX, vx |-> 0, vy |-> 0,
     on_ground |-> FALSE, facing |-> 1, walk_cycle |-> 0]

\* int(v) of a float v that is a sum of floats. Within Tol of a whole number
\* n the float may be just below or just above n, and int() gives n or its
\* neighbour towards zero: `inner` chooses
float_int(v, inner) ==
    IF Abs(v - RoundDiv(v, PX) * PX) > Tol
    THEN TruncDiv(v, PX)
    ELSE IF inner /\ RoundDiv(v, PX) > 0 THEN RoundDiv(v, PX) - 1
    ELSE IF inner /\ RoundDiv(v, PX) < 0 THEN RoundDiv(v, PX) + 1
    ELSE RoundDiv(v, PX)

\* int(v) of a float v; `summed` says that v is a sum of floats, otherwise v
\* is the whole number a constructor or a collision stored
py_int_float(v, summed, inner) ==
    IF ~summed /\ v % PX = 0 THEN v \div PX ELSE float_int(v, inner)

\* pygame.Rect(x, y, w, h)
Rect(x, y, w, h) == [x |-> x, y |-> y, w |-> w, h |-> h]

\* Player.rect
player_rect(p, summed_x, inner_x, summed_y, inner_y) ==
    Rect(py_int_float(p.x, summed_x, inner_x), py_int_float(p.y, summed_y, inner_y),
         player_width, player_height)

\* pygame.Rect.colliderect for rectangles of positive size
colliderect(r, tile) ==
    /\ r.x < tile.x + tile.w /\ tile.x < r.x + r.w
    /\ r.y < tile.y + tile.h /\ tile.y < r.y + r.h

\* BLOCKS[block].solid: every block but air
solid(block) == block # BLOCK_AIR

\* Player._solid_at
_solid_at(w, wx, wy) == solid(get_block(w, wx, wy).ret)

\* the number of tiles from math.floor(lo / TILE_SIZE) to
\* math.floor((lo + size - 1) / TILE_SIZE)
tile_span(lo, size) ==
    FloorDiv(lo + size - 1, TILE_SIZE) - FloorDiv(lo, TILE_SIZE) + 1

\* the loops of _collect_solid_tiles from the k-th tile on, n tiles in all,
\* ny per column
RECURSIVE solid_tiles_from(_, _, _, _, _, _)
solid_tiles_from(w, min_tx, min_ty, ny, k, n) ==
    IF k >= n THEN <<>>
    ELSE (IF _solid_at(w, min_tx + (k \div ny), min_ty + (k % ny))
          THEN <<Rect((min_tx + (k \div ny)) * TILE_SIZE, (min_ty + (k % ny)) * TILE_SIZE,
                      TILE_SIZE, TILE_SIZE)>>
          ELSE <<>>)
         \o solid_tiles_from(w, min_tx, min_ty, ny, k + 1, n)

\* Player._collect_solid_tiles
_collect_solid_tiles(w, r) ==
    solid_tiles_from(w, FloorDiv(r.x, TILE_SIZE), FloorDiv(r.y, TILE_SIZE),
                     tile_span(r.y, r.h), 0,
                     tile_span(r.x, r.w) * tile_span(r.y, r.h))

\* the World after the get_block calls of _collect_solid_tiles: the chunks of
\* the columns are generated when a row of the rectangle lies in the world
world_after_tiles(w, r) ==
    IF \E ty \in FloorDiv(r.y, TILE_SIZE)..FloorDiv(r.y + r.h - 1, TILE_SIZE) :
          0 <= ty /\ ty < w.height
    THEN ensure_chunks(w, FloorDiv(FloorDiv(r.x, TILE_SIZE), w.chunk_size),
                       FloorDiv(FloorDiv(r.x + r.w - 1, TILE_SIZE), w.chunk_size))
    ELSE w

\* float(right) - float(left)
move_input_of(left, right) == (IF right THEN 1 ELSE 0) - (IF left THEN 1 ELSE 0)

\* self.vx += (target_vx - self.vx) * min(1.0, accel * dt)
accelerate(p, move_input, dtInv) ==
    [p EXCEPT !.vx = @ + RoundDiv((move_input * speed - @)
                                     * Min(10 * dtInv,
                                           IF p.on_ground THEN accel_ground ELSE accel_air),
                                  10 * dtInv)]

\* if abs(self.vx) < 4.0: self.vx = 0.0
snap(vx) == IF Abs(vx) < 4 * MILLI THEN 0 ELSE vx

\* the friction of a grounded player without input
apply_friction(p, move_input, dtInv) ==
    IF move_input = 0 /\ p.on_ground
    THEN [p EXCEPT !.vx = snap(RoundDiv(@ * Max(0, 10 * dtInv - friction), 10 * dtInv))]
    ELSE p

\* start_jump that ignores the jump key
start_jump_never(p, jump) == p

\* if jump and self.on_ground
start_jump(p, jump) ==
    IF jump /\ p.on_ground
    THEN [p EXCEPT !.vy = -jump_force, !.on_ground = FALSE]
    ELSE p

\* self.vy += self.gravity * dt; self.vy = min(self.vy, 1200.0)
fall(p, dtInv) == [p EXCEPT !.vy = Min(@ + gravity \div dtInv, max_fall)]

\* the player up to the X pass
before_x(p, move_input, jump, dtInv) ==
    fall(start_jump(apply_friction(accelerate(p, move_input, dtInv), move_input, dtInv),
                    jump),
         dtInv)

\* self.x += self.vx * dt
shifted_x(p, dtInv) == [p EXCEPT !.x = @ + p.vx * (120 \div dtInv)]

\* self.y += self.vy * dt
shifted_y(p, dtInv) == [p EXCEPT !.y = @ + p.vy * (120 \div dtInv)]

\* hit_x that stops the player without moving the rectangle out of the tile
hit_x_in_place(st, tile) == [rect |-> st.rect, x |-> st.rect.x * PX, vx |-> 0]

\* the body of the X loop for a tile the rectangle collides with
hit_x(st, tile) ==
    IF st.vx > 0
    THEN [rect |-> [st.rect EXCEPT !.x = tile.x - st.rect.w],
          x |-> (tile.x - st.rect.w) * PX, vx |-> 0]
    ELSE IF st.vx < 0
    THEN [rect |-> [st.rect EXCEPT !.x = tile.x + tile.w],
          x |-> (tile.x + tile.w) * PX, vx |-> 0]
    ELSE [rect |-> st.rect, x |-> st.rect.x * PX, vx |-> 0]

\* one round of the X loop
try_x(st, tile) == IF colliderect(st.rect, tile) THEN hit_x(st, tile) ELSE st

RECURSIVE collide_x(_, _, _)
collide_x(tiles, i, st) ==
    IF i > Len(tiles) THEN st
    ELSE CHOOSE end \in {collide_x(tiles, i + 1, next) : next \in {try_x(st, tiles[i])}} :
            TRUE

\* the player with the x and vx the X loop ends with
with_x(p, st) == [p EXCEPT !.x = st.x, !.vx = st.vx]

\* the X pass of the moved player p on its rectangle r
settle_x(p, w, r) ==
    CHOOSE q \in {with_x(p, collide_x(tiles, 1, [rect |-> r, x |-> p.x, vx |-> p.vx])) :
                     tiles \in {_collect_solid_tiles(w, r)}} : TRUE

\* the rectangle of the X pass; self.y is a sum of floats unless the last
\* step ended in a collision, which left vy = 0
x_rect(p, dtInv, summed_y, inner_x, inner_y) ==
    player_rect(shifted_x(p, dtInv), p.vx # 0, inner_x, summed_y, inner_y)

\* self.x += self.vx * dt and the X pass
move_x(p, w, dtInv, summed_y, inner_x, inner_y) ==
    CHOOSE q \in {settle_x(shifted_x(p, dtInv), w, r) :
                     r \in {x_rect(p, dtInv, summed_y, inner_x, inner_y)}} : TRUE

\* hit_y whose downward contact does not set on_ground
hit_y_no_contact(st, tile) ==
    IF st.vy > 0
    THEN [rect |-> [st.rect EXCEPT !.y = tile.y - st.rect.h],
          y |-> (tile.y - st.rect.h) * PX, vy |-> 0, on_ground |-> st.on_ground]
    ELSE IF st.vy < 0
    THEN [rect |-> [st.rect EXCEPT !.y = tile.y + tile.h],
          y |-> (tile.y + tile.h) * PX, vy |-> 0, on_ground |-> st.on_ground]
    ELSE [rect |-> st.rect, y |-> st.rect.y * PX, vy |-> 0,
          on_ground |-> st.on_ground]

\* the body of the Y loop for a tile the rectangle collides with
hit_y(st, tile) ==
    IF st.vy > 0
    THEN [rect |-> [st.rect EXCEPT !.y = tile.y - st.rect.h],
          y |-> (tile.y - st.rect.h) * PX, vy |-> 0, on_ground |-> TRUE]
    ELSE IF st.vy < 0
    THEN [rect |-> [st.rect EXCEPT !.y = tile.y + tile.h],
          y |-> (tile.y + tile.h) * PX, vy |-> 0, on_ground |-> st.on_ground]
    ELSE [rect |-> st.rect, y |-> st.rect.y * PX, vy |-> 0,
          on_ground |-> st.on_ground]

\* one round of the Y loop
try_y(st, tile) == IF colliderect(st.rect, tile) THEN hit_y(st, tile) ELSE st

RECURSIVE collide_y(_, _, _)
collide_y(tiles, i, st) ==
    IF i > Len(tiles) THEN st
    ELSE CHOOSE end \in {collide_y(tiles, i + 1, next) : next \in {try_y(st, tiles[i])}} :
            TRUE

\* the player with the y, vy and on_ground the Y loop ends with
with_y(p, st) == [p EXCEPT !.y = st.y, !.vy = st.vy, !.on_ground = st.on_ground]

\* self.on_ground = False and the Y pass of the moved player p on its
\* rectangle r
settle_y(p, w, r) ==
    CHOOSE q \in {with_y(p, collide_y(tiles, 1, [rect |-> r, y |-> p.y, vy |-> p.vy,
                                                 on_ground |-> FALSE])) :
                     tiles \in {_collect_solid_tiles(w, r)}} : TRUE

\* the rectangle of the Y pass; self.x is a sum of floats when the X pass
\* left vx other than 0
y_rect(p, dtInv, inner_x, inner_y) ==
    player_rect(shifted_y(p, dtInv), p.vx # 0, inner_x, p.vy # 0, inner_y)

\* self.y += self.vy * dt and the Y pass
move_y(p, w, dtInv, inner_x, inner_y) ==
    CHOOSE q \in {settle_y(shifted_y(p, dtInv), w, r) :
                     r \in {y_rect(p, dtInv, inner_x, inner_y)}} : TRUE

\* facing and walk_cycle (walk_cycle in units of 9/120)
turn(p, move_input, dtInv) ==
    IF move_input # 0
    THEN [p EXCEPT !.facing = IF move_input > 0 THEN 1 ELSE -1,
                   !.walk_cycle = @ + (120 \div dtInv) * Abs(move_input)]
    ELSE p

\* the player after the X pass
after_x(p, w, move_input, jump, dtInv, inner_x, inner_y) ==
    CHOOSE q \in {move_x(q0, w, dtInv, p.vy # 0, inner_x, inner_y) :
                     q0 \in {before_x(p, move_input, jump, dtInv)}} : TRUE

\* Player.update
update(p, w, dtInv, left, right, jump, inner_x, inner_y) ==
    CHOOSE q \in {turn(move_y(q1, w, dtInv, inner_x, inner_y),
                       move_input_of(left, right), dtInv) :
                     q1 \in {after_x(p, w, move_input_of(left, right), jump, dtInv,
                                     inner_x, inner_y)}} : TRUE

\* the World after Player.update: the chunks its two passes read
world_after_update(p, w, dtInv, left, right, jump, inner_x, inner_y) ==
    CHOOSE g \in {world_after_tiles(world_after_tiles(w, rx), ry) :
                     rx \in {x_rect(before_x(p, move_input_of(left, right), jump, dtInv),
                                    dtInv, p.vy # 0, inner_x, inner_y)},
                     ry \in {y_rect(after_x(p, w, move_input_of(left, right), jump, dtInv,
                                            inner_x, inner_y),
                                    dtInv, inner_x, inner_y)}} : TRUE

\* ------------------------------------------------------------------------
\* Game: saving and loading a session (gascraft2d.py:479-486, 224-235,
\* 370-387, 573-593). The game file has its own World, Player and Inventory
\* classes; where they differ from the package's the operators below follow
\* the game file. A session is the record of the Game's world, player,
\* inventory and day_timer; day_timer counts 1/120 second. The save file
\* holds a JSON document, which json.dumps and json.loads map to and from
\* the same tree of dicts with str keys, lists, ints, floats and None.
\* ------------------------------------------------------------------------
\* day_timer units per second
TICKS == 120

Session(w, p, i, t) == [world |-> w, player |-> p, inv |-> i, day_timer |-> t]

\* Player.to_dict
player_to_dict(p) ==
    PyMapping([x |-> PyFloat(p.x, PX), y |-> PyFloat(p.y, PX),
               vx |-> PyFloat(p.vx, MILLI), vy |-> PyFloat(p.vy, MILLI)])

\* Player.from_dict, one assignment: self.<key> = float(data.get(key, default))
load_x(p, d) == [p EXCEPT !.x = py_float(data_get(d, "x", PyFloat(p.x, PX)), PX)]
load_y(p, d) == [p EXCEPT !.y = py_float(data_get(d, "y", PyFloat(p.y, PX)), PX)]
load_vx(p, d) == [p EXCEPT !.vx = py_float(data_get(d, "vx", PyFloat(0, MILLI)), MILLI)]
load_vy(p, d) == [p EXCEPT !.vy = py_float(data_get(d, "vy", PyFloat(0, MILLI)), MILLI)]

\* Player.from_dict that also restores on_ground from the velocity
player_from_dict_grounded(p, value) ==
    [player |-> [load_vy(load_vx(load_y(load_x(p, value.v), value.v), value.v), value.v)
                    EXCEPT !.on_ground = TRUE],
     raised |-> FALSE]

\* Player.from_dict: the player after the call and whether it raised; a
\* raise leaves the fields assigned before it
player_from_dict(p, value) ==
    IF value.t # "dict"
    THEN [player |-> p, raised |-> TRUE]
    ELSE IF float_raises(data_get(value.v, "x", PyFloat(p.x, PX)))
    THEN [player |-> p, raised |-> TRUE]
    ELSE IF float_raises(data_get(value.v, "y", PyFloat(p.y, PX)))
    THEN [player |-> load_x(p, value.v), raised |-> TRUE]
    ELSE IF float_raises(data_get(value.v, "vx", PyFloat(0, MILLI)))
    THEN [player |-> load_y(load_x(p, value.v), value.v), raised |-> TRUE]
    ELSE IF float_raises(data_get(value.v, "vy", PyFloat(0, MILLI)))
    THEN [player |-> load_vx(load_y(load_x(p, value.v), value.v), value.v),
          raised |-> TRUE]
    ELSE [player |-> load_vy(load_vx(load_y(load_x(p, value.v), value.v), value.v),
                             value.v),
          raised |-> FALSE]

\* Inventory.to_dict of the game file: self.dragging is not part of it
game_inventory_to_dict(inv) == PyMapping(inventory_to_dict(inv))

\* `for entry in raw_slots` of the game file, which does not test that
\* raw_slots is a list: a str or a dict yields its characters or keys, on
\* which ItemStack.from_dict raises; any other value cannot be iterated
game_slots_loop(raw_slots) ==
    IF raw_slots.t = "list"
    THEN slots_from_entries(raw_slots.v, 1, <<>>)
    ELSE IF raw_slots.t \in {"str", "dict"} /\ DOMAIN raw_slots.v = {}
    THEN [slots |-> <<>>, raised |-> FALSE]
    ELSE [slots |-> <<>>, raised |-> TRUE]

\* Inventory.from_dict of the game file: the inventory after the call and
\* whether it raised; a raise in the loop leaves the slots appended so far
game_inventory_from_dict(inv, value) ==
    IF value.t # "dict"
    THEN [inv |-> inv, raised |-> TRUE]
    ELSE IF int_raises(data_get(value.v, "selected_hotbar", PyInt(0)))
    THEN [inv |-> inv, raised |-> TRUE]
    ELSE IF game_slots_loop(data_get(value.v, "slots", PyList(<<>>))).raised
    THEN [inv |-> [inv EXCEPT
                     !.selected_hotbar =
                        py_int(data_get(value.v, "selected_hotbar", PyInt(0))),
                     !.slots = game_slots_loop(
                        data_get(value.v, "slots", PyList(<<>>))).slots],
          raised |-> TRUE]
    ELSE [inv |-> [inv EXCEPT
                     !.selected_hotbar =
                        py_int(data_get(value.v, "selected_hotbar", PyInt(0))),
                     !.slots = pad_slots(game_slots_loop(
                        data_get(value.v, "slots", PyList(<<>>))).slots)],
          raised |-> FALSE]

\* World.from_dict of the game file, which reads seed, chunk_size and height
\* with int(): whether it raised and the World it returns when it did not
game_world_from_dict(value, rnd) ==
    IF value.t # "dict"
    THEN [raised |-> TRUE, world |-> NewWorld(0)]
    ELSE IF \/ int_raises(data_get(value.v, "seed", PyInt(rnd)))
            \/ int_raises(data_get(value.v, "chunk_size", PyInt(CHUNK_SIZE)))
            \/ int_raises(data_get(value.v, "height", PyInt(WORLD_HEIGHT)))
            \/ from_dict_raises(value.v)
    THEN [raised |-> TRUE, world |-> NewWorld(0)]
    ELSE [raised |-> FALSE,
          world |-> [world_from_dict(value.v, rnd).world EXCEPT
                       !.seed = py_int(data_get(value.v, "seed", PyInt(rnd))),
                       !.chunk_size = py_int(data_get(value.v, "chunk_size",
                                                      PyInt(CHUNK_SIZE))),
                       !.height = py_int(data_get(value.v, "height",
                                                  PyInt(WORLD_HEIGHT)))]]

\* the save file: absent, or the JSON document it holds
NoFile == [t |-> "absent", v |-> 0]

\* Game.save_game: the document written
save_game(s) ==
    PyMapping([world |-> PyMapping(world_to_dict(s.world)),
               player |-> player_to_dict(s.player),
               inventory |-> game_inventory_to_dict(s.inv),
               day_timer |-> PyFloat(s.day_timer, TICKS)])

\* load_game from `self.inventory = Inventory()` on, in the session s1 that
\* has the world and the player of the file
load_inventory_and_timer(s1, d) ==
    IF game_inventory_from_dict(NewInventory,
                                data_get(d, "inventory", PyMapping(<<>>))).raised
    THEN [s |-> [s1 EXCEPT !.inv =
                    game_inventory_from_dict(
                        NewInventory, data_get(d, "inventory", PyMapping(<<>>))).inv],
          ret |-> FALSE, raised |-> TRUE]
    ELSE IF float_raises(data_get(d, "day_timer", PyFloat(0, TICKS)))
    THEN [s |-> [s1 EXCEPT !.inv =
                    game_inventory_from_dict(
                        NewInventory, data_get(d, "inventory", PyMapping(<<>>))).inv],
          ret |-> FALSE, raised |-> TRUE]
    ELSE [s |-> [s1 EXCEPT
                    !.inv = game_inventory_from_dict(
                        NewInventory, data_get(d, "inventory", PyMapping(<<>>))).inv,
                    !.day_timer = py_float(data_get(d, "day_timer", PyFloat(0, TICKS)),
                                           TICKS)],
          ret |-> TRUE, raised |-> FALSE]

\* load_game from `self.player = Player(0.0, 0.0)` on, in the session s1
\* that has the world of the file
load_player_and_rest(s1, d) ==
    IF player_from_dict(NewPlayer(0, 0), data_get(d, "player", PyMapping(<<>>))).raised
    THEN [s |-> [s1 EXCEPT !.player =
                    player_from_dict(NewPlayer(0, 0),
                                     data_get(d, "player", PyMapping(<<>>))).player],
          ret |-> FALSE, raised |-> TRUE]
    ELSE load_inventory_and_timer(
            [s1 EXCEPT !.player =
                player_from_dict(NewPlayer(0, 0),
                                 data_get(d, "player", PyMapping(<<>>))).player], d)

\* Game.load_game with random.randint drawing rnd: the session after the
\* call, the value returned and whether an exception left the call
load_game(s, file, rnd) ==
    IF file.t = "absent"
    THEN [s |-> s, ret |-> FALSE, raised |-> FALSE]
    ELSE IF file.t # "dict"
    THEN [s |-> s, ret |-> FALSE, raised |-> TRUE]
    ELSE IF game_world_from_dict(data_get(file.v, "world", PyMapping(<<>>)), rnd).raised
    THEN [s |-> s, ret |-> FALSE, raised |-> TRUE]
    ELSE load_player_and_rest(
            [s EXCEPT !.world =
                game_world_from_dict(data_get(file.v, "world", PyMapping(<<>>)),
                                     rnd).world], file.v)

\* ------------------------------------------------------------------------
\* Game: mining, placing and crafting (gascraft2d.py:52-59, 509-520, 557-561,
\* 618-682). mining_progress counts 1/1000000; dt is 1/dtInv second
\* ------------------------------------------------------------------------
\* mining_progress 1.0
FULL == 1000000

\* BLOCKS[block_id].break_time in 1/100 second
break_time(block_id) ==
    CASE block_id = BLOCK_DIRT -> 24
      [] block_id = BLOCK_STONE -> 65
      [] block_id = BLOCK_ORE -> 95
      [] block_id = BLOCK_WOOD -> 38
      [] block_id = BLOCK_BEDROCK -> 999900
      [] OTHER -> 0

\* BLOCKS[block_id].unbreakable
unbreakable(block_id) == block_id = BLOCK_BEDROCK

\* the id add_item is called with for a mined block: no BlockDef sets
\* drop_id, so it is the block's own id
drop_of(block_id) == block_id

\* the Game's fields besides world, player and inventory
NewGame ==
    [day_timer |-> 0, mining_target |-> None, mining_progress |-> 0,
     last_mouse_left |-> FALSE, last_mouse_right |-> FALSE,
     show_inventory |-> FALSE, show_menu |-> FALSE, show_crafting |-> FALSE]

\* self.day_length in day_timer units
day_length == 140 * TICKS

\* self.recipes: inputs and output as (block_id, count)
recipes ==
    <<[inputs |-> <<<<BLOCK_DIRT, 4>>>>, output |-> <<BLOCK_STONE, 1>>],
      [inputs |-> <<<<BLOCK_STONE, 3>>, <<BLOCK_ORE, 1>>>>, output |-> <<BLOCK_ORE, 2>>]>>

\* show_inventory or show_menu or show_crafting
panel_open(g) == g.show_inventory \/ g.show_menu \/ g.show_crafting

\* Game.player_block_pos
player_block_pos(p) ==
    <<FloorDiv(2 * p.x + player_width * PX, 2 * TILE_SIZE * PX),
      FloorDiv(2 * p.y + player_height * PX, 2 * TILE_SIZE * PX)>>

\* Game.can_reach
can_reach(p, wx, wy) ==
    /\ Abs(wx - player_block_pos(p)[1]) <= 8
    /\ Abs(wy - player_block_pos(p)[2]) <= 8

\* dt / max(0.05, block.break_time)
progress_step(block_id, dtInv) ==
    RoundDiv(FULL * 100, dtInv * Max(5, break_time(block_id)))

\* a Game state the two halves of handle_mining_and_placing work on
Hands(g, w, i) == [game |-> g, world |-> w, inv |-> i]

\* the mining branch for a breakable block at the target: progress grows
\* and, at 1.0, the cell is set to air and add_item is called for the drop
dig(h, block_id, target, dtInv) ==
    IF (IF h.game.mining_target # <<target>> THEN 0 ELSE h.game.mining_progress)
          + progress_step(block_id, dtInv) >= FULL
    THEN Hands([h.game EXCEPT !.mining_target = None, !.mining_progress = 0],
               set_block(h.world, target[1], target[2], BLOCK_AIR),
               add_item(h.inv, drop_of(block_id), 1).inv)
    ELSE Hands([h.game EXCEPT
                  !.mining_target = <<target>>,
                  !.mining_progress =
                     (IF h.game.mining_target # <<target>> THEN 0 ELSE @)
                        + progress_step(block_id, dtInv)],
               h.world, h.inv)

\* no mining in this frame: target and progress are reset
stop_mining(h) ==
    [h EXCEPT !.game.mining_target = None, !.game.mining_progress = 0]

\* the mining half with the test for an unbreakable block left out
mine_any(h, p, dtInv, target, left) ==
    IF left /\ ~panel_open(h.game)
    THEN IF can_reach(p, target[1], target[2])
         THEN IF get_block(h.world, target[1], target[2]).ret # BLOCK_AIR
              THEN dig([h EXCEPT !.world = get_block(h.world, target[1], target[2]).world],
                       get_block(h.world, target[1], target[2]).ret, target, dtInv)
              ELSE stop_mining([h EXCEPT !.world =
                                   get_block(h.world, target[1], target[2]).world])
         ELSE stop_mining(h)
    ELSE IF ~left THEN stop_mining(h) ELSE h

\* the mining half of handle_mining_and_placing
mine(h, p, dtInv, target, left) ==
    IF left /\ ~panel_open(h.game)
    THEN IF can_reach(p, target[1], target[2])
         THEN IF /\ get_block(h.world, target[1], target[2]).ret # BLOCK_AIR
                 /\ ~unbreakable(get_block(h.world, target[1], target[2]).ret)
              THEN dig([h EXCEPT !.world = get_block(h.world, target[1], target[2]).world],
                       get_block(h.world, target[1], target[2]).ret, target, dtInv)
              ELSE stop_mining([h EXCEPT !.world =
                                   get_block(h.world, target[1], target[2]).world])
         ELSE stop_mining(h)
    ELSE IF ~left THEN stop_mining(h) ELSE h

\* pygame.Rect(target_wx * TILE_SIZE, target_wy * TILE_SIZE, TILE_SIZE, TILE_SIZE)
place_rect(target) == Rect(target[1] * TILE_SIZE, target[2] * TILE_SIZE, TILE_SIZE, TILE_SIZE)

\* the innermost branch of the placement half: consume_selected(1), and
\* set_block when it returned a block id
put(h, target) ==
    IF consume_selected(h.inv, 1).ret = None
    THEN h
    ELSE [h EXCEPT !.inv = consume_selected(h.inv, 1).inv,
                   !.world = set_block(h.world, target[1], target[2],
                                       consume_selected(h.inv, 1).ret[1])]

\* the placement half of handle_mining_and_placing (edge triggered)
place(h, p, target, right) ==
    IF right /\ ~h.game.last_mouse_right /\ ~panel_open(h.game)
       /\ can_reach(p, target[1], target[2])
    THEN IF get_block(h.world, target[1], target[2]).ret = BLOCK_AIR
         THEN IF /\ get_selected_block(h.inv).ret # None
                 /\ ~colliderect(place_rect(target),
                                 player_rect(p, FALSE, FALSE, FALSE, FALSE))
              THEN put([h EXCEPT !.world =
                           get_block(h.world, target[1], target[2]).world], target)
              ELSE [h EXCEPT !.world = get_block(h.world, target[1], target[2]).world]
         ELSE [h EXCEPT !.world = get_block(h.world, target[1], target[2]).world]
    ELSE h

\* self.last_mouse_left = left; self.last_mouse_right = right
remember_buttons(h, left, right) ==
    [h EXCEPT !.game.last_mouse_left = left, !.game.last_mouse_right = right]

\* Game.handle_mining_and_placing with the mouse over tile `target`
handle_mining_and_placing(h, p, dtInv, target, left, right) ==
    CHOOSE r \in {remember_buttons(place(m, p, target, right), left, right) :
                     m \in {mine(h, p, dtInv, target, left)}} : TRUE

\* the first loop of craft from input k on: is every input available
RECURSIVE inputs_available(_, _, _)
inputs_available(inv, inputs, k) ==
    IF k > Len(inputs) THEN TRUE
    ELSE has_items(inv, inputs[k][1], inputs[k][2])
         /\ inputs_available(inv, inputs, k + 1)

\* the second loop of craft from input k on
RECURSIVE remove_inputs(_, _, _)
remove_inputs(inv, inputs, k) ==
    IF k > Len(inputs) THEN inv
    ELSE remove_inputs(remove_items(inv, inputs[k][1], inputs[k][2]).inv, inputs, k + 1)

\* craft that returns what add_item returned for the output
craft_checked(inv, recipe_index) ==
    IF recipe_index < 0 \/ recipe_index >= Len(recipes)
    THEN [inv |-> inv, ret |-> FALSE]
    ELSE IF ~inputs_available(inv, recipes[recipe_index + 1].inputs, 1)
    THEN [inv |-> inv, ret |-> FALSE]
    ELSE [inv |-> add_item(remove_inputs(inv, recipes[recipe_index + 1].inputs, 1),
                           recipes[recipe_index + 1].output[1],
                           recipes[recipe_index + 1].output[2]).inv,
          ret |-> add_item(remove_inputs(inv, recipes[recipe_index + 1].inputs, 1),
                           recipes[recipe_index + 1].output[1],
                           recipes[recipe_index + 1].output[2]).ret]

\* Game.craft: the inventory after the call and the value returned
craft(inv, recipe_index) ==
    IF recipe_index < 0 \/ recipe_index >= Len(recipes)
    THEN [inv |-> inv, ret |-> FALSE]
    ELSE IF ~inputs_available(inv, recipes[recipe_index + 1].inputs, 1)
    THEN [inv |-> inv, ret |-> FALSE]
    ELSE [inv |-> add_item(remove_inputs(inv, recipes[recipe_index + 1].inputs, 1),
                           recipes[recipe_index + 1].output[1],
                           recipes[recipe_index + 1].output[2]).inv,
          ret |-> TRUE]

\* ------------------------------------------------------------------------
\* State
\* ------------------------------------------------------------------------
VARIABLES
    world,      \* the session's World
    op,         \* the last call made: its name, arguments and return value
    lastSet,    \* the arguments of the previous call when it was a set_block
    data,       \* the persisted world record a load reads
    loaded,     \* whether world is one that from_dict returned
    worldB,     \* a second World created with the same seed
    order,      \* the chunk indices of world in the order they were generated
    orderB,     \* the same for worldB
    touched,    \* the chunk indices of world that a set_block has written
    inv,        \* the session's Inventory
    calls,      \* the number of Inventory calls made
    player,     \* the session's Player
    steps,      \* the number of frames and block placements of a bounded session
    game,       \* the Game's own fields: day timer, mining state, buttons, panels
    file,       \* the save file: NoFile or the document it holds
    saved       \* the session save_game wrote last, while the file still holds it

loadVars == <<data, loaded>>
twinVars == <<worldB, order, orderB, touched>>
invVars == <<inv, calls>>
playVars == <<player, steps>>
gameVars == <<game, file, saved>>
vars == <<world, op, lastSet, loadVars, twinVars, invVars, playVars, gameVars>>

NoCall == [name |-> "none", a |-> <<>>, ret |-> 0]
NoSet == <<>>
NoData == [none |-> PyNone]
NoSession == <<>>

\* ------------------------------------------------------------------------
\* Inputs of the world operations
\* ------------------------------------------------------------------------
\* coordinates read and written: a terrain cell, an air cell left of the
\* origin, and one above and one below the world
Coords == {<<3, 100>>, <<-1, 40>>, <<3, -1>>, <<3, WORLD_HEIGHT>>}
\* block ids written
Written == {BLOCK_AIR, BLOCK_WOOD}
\* query rectangles (min_wx, max_wx, min_wy, max_wy)
Rects == {<<-1, 3, 99, 100>>, <<-1, -1, 40, 40>>,
          <<-2, 1, WORLD_HEIGHT - 2, WORLD_HEIGHT + 1>>, <<3, -1, 0, 120>>}

\* ------------------------------------------------------------------------
\* Spec: a fresh World driven through its public operations
\* ------------------------------------------------------------------------
\* the arguments of the call just made, when it was a set_block
PrevSet == IF op.name = "set_block" THEN op.a ELSE NoSet

\* what every specification starts with besides its World and its Player
InitBase ==
    /\ op = NoCall
    /\ lastSet = NoSet
    /\ loaded = FALSE
    /\ order = <<>>
    /\ orderB = <<>>
    /\ touched = {}
    /\ inv = NewInventory
    /\ calls = 0
    /\ steps = 0
    /\ game = NewGame
    /\ file = NoFile
    /\ saved = NoSession

\* the Player of the test suite (tests/test_core.py:127)
InitRest ==
    /\ InitBase
    /\ player = NewPlayer(64, 0)

Init ==
    /\ \E seed \in Seeds : world = NewWorld(seed) /\ worldB = NewWorld(seed)
    /\ data = NoData
    /\ InitRest

GetBlock(wx, wy) ==
    \E r \in {get_block(world, wx, wy)} :
        /\ world' = r.world
        /\ op' = [name |-> "get_block", a |-> <<wx, wy>>, ret |-> r.ret]
        /\ lastSet' = PrevSet
        /\ UNCHANGED <<loadVars, twinVars, invVars, playVars, gameVars>>

SetBlock(wx, wy, block_id) ==
    /\ world' = set_block(world, wx, wy, block_id)
    /\ op' = [name |-> "set_block", a |-> <<wx, wy, block_id>>, ret |-> 0]
    /\ lastSet' = PrevSet
    /\ UNCHANGED <<loadVars, twinVars, invVars, playVars, gameVars>>

GenerateChunk(chunk_x) ==
    /\ world' = generate_chunk(world, chunk_x)
    /\ op' = [name |-> "generate_chunk", a |-> <<chunk_x>>, ret |-> 0]
    /\ lastSet' = PrevSet
    /\ UNCHANGED <<loadVars, twinVars, invVars, playVars, gameVars>>

EnsureChunks(min_chunk, max_chunk) ==
    /\ world' = ensure_chunks(world, min_chunk, max_chunk)
    /\ op' = [name |-> "ensure_chunks", a |-> <<min_chunk, max_chunk>>, ret |-> 0]
    /\ lastSet' = PrevSet
    /\ UNCHANGED <<loadVars, twinVars, invVars, playVars, gameVars>>

IterVisibleBlocks(rect) ==
    \E r \in {iter_visible_blocks(world, rect[1], rect[2], rect[3], rect[4])} :
        /\ world' = r.world
        /\ op' = [name |-> "iter_visible_blocks", a |-> rect, ret |-> r.ret]
        /\ lastSet' = PrevSet
        /\ UNCHANGED <<loadVars, twinVars, invVars, playVars, gameVars>>

Next ==
    \/ \E c \in Coords : GetBlock(c[1], c[2])
    \/ \E c \in Coords, b \in Written : SetBlock(c[1], c[2], b)
    \/ \E cx \in ChunkIdx : GenerateChunk(cx)
    \/ \E lo \in ChunkIdx, hi \in ChunkIdx : EnsureChunks(lo, hi)
    \/ \E rect \in Rects : IterVisibleBlocks(rect)

Spec == Init /\ [][Next]_vars

\* ------------------------------------------------------------------------
\* SpecSave: a session that saves its World and loads the record back
\* ------------------------------------------------------------------------
\* World.from_dict reading `record`, with random.randint drawing rnd
FromDict(record) ==
    \E rnd \in Seeds :
      \E r \in {world_from_dict(record, rnd)} :
        /\ world' = IF r.raised THEN world ELSE r.world
        /\ op' = [name |-> "from_dict", a |-> <<>>,
                  ret |-> IF r.raised THEN "raised" ELSE "ok"]
        /\ loaded' = (loaded \/ ~r.raised)
        /\ lastSet' = NoSet
        /\ UNCHANGED <<data, twinVars, invVars, playVars, gameVars>>

\* to_dict, then from_dict of that record; the session goes on with the
\* World from_dict returned
SaveAndLoad == \E record \in {world_to_dict(world)} : FromDict(record)

\* cells written in a session that is saved
SaveCoords == {<<3, 100>>, <<-1, 40>>}

NextSave ==
    \/ \E c \in SaveCoords, b \in Written : SetBlock(c[1], c[2], b)
    \/ \E cx \in ChunkIdx : GenerateChunk(cx)
    \/ SaveAndLoad

SpecSave == Init /\ [][NextSave]_vars

\* ------------------------------------------------------------------------
\* SpecGen: two Worlds created with the same seed; chunks are generated in
\* both in any order, and world is written as well
\* ------------------------------------------------------------------------
\* an entry of the logs `order` and `orderB`: chunk_x was generated, or
\* was written by set_block for the first time
Generated(chunk_x) == [ev |-> "generated", chunk |-> chunk_x]
FirstWritten(chunk_x) == [ev |-> "written", chunk |-> chunk_x]

\* `log` followed by the chunks a call added to the World
then_generated(log, before, after) ==
    log \o [i \in 1..Cardinality(DOMAIN after.chunks \ DOMAIN before.chunks) |->
              Generated(SetToSeq(DOMAIN after.chunks \ DOMAIN before.chunks)[i])]

TwinGenerate(chunk_x) ==
    \E g \in {generate_chunk(world, chunk_x)} :
        /\ world' = g
        /\ order' = then_generated(order, world, g)
        /\ op' = [name |-> "generate_chunk", a |-> <<chunk_x>>, ret |-> 0]
        /\ UNCHANGED <<lastSet, loadVars, worldB, orderB, touched, invVars, playVars, gameVars>>

TwinGenerateB(chunk_x) ==
    \E g \in {generate_chunk(worldB, chunk_x)} :
        /\ worldB' = g
        /\ orderB' = then_generated(orderB, worldB, g)
        /\ op' = [name |-> "generate_chunk_B", a |-> <<chunk_x>>, ret |-> 0]
        /\ UNCHANGED <<world, lastSet, loadVars, order, touched, invVars, playVars, gameVars>>

TwinSetBlock(wx, wy, block_id) ==
    \E g \in {set_block(world, wx, wy, block_id)} :
      \E cx \in {FloorDiv(wx, world.chunk_size)} :
        /\ world' = g
        /\ touched' = IF 0 <= wy /\ wy < world.height
                      THEN touched \cup {cx}
                      ELSE touched
        /\ order' = IF touched' = touched
                    THEN then_generated(order, world, g)
                    ELSE Append(then_generated(order, world, g), FirstWritten(cx))
        /\ op' = [name |-> "set_block", a |-> <<wx, wy, block_id>>, ret |-> 0]
        /\ UNCHANGED <<lastSet, loadVars, worldB, orderB, invVars, playVars, gameVars>>

NextGen ==
    \/ \E cx \in ChunkIdx : TwinGenerate(cx)
    \/ \E cx \in ChunkIdx : TwinGenerateB(cx)
    \/ \E c \in SaveCoords, b \in Written : TwinSetBlock(c[1], c[2], b)

SpecGen == Init /\ [][NextGen]_vars

\* ------------------------------------------------------------------------
\* SpecLoad: a session that loads a persisted world record, well formed or
\* not, and goes on reading and writing cells
\* ------------------------------------------------------------------------
Chars0 == <<"0">>
Chars1 == <<"1">>
\* an entry [wx, wy, block_id] of ints
IntEntry(wx, wy, block_id) == PyList(<<PyInt(wx), PyInt(wy), PyInt(block_id)>>)
\* a record of seed 77 whose chunks dict is `items`
RecordOf(items) == [seed |-> PyInt(77), chunk_size |-> PyInt(CHUNK_SIZE),
                    height |-> PyInt(WORLD_HEIGHT), chunks |-> PyDict(items)]

Records == <<
    \* well formed
    RecordOf(<< <<Chars0, PyList(<<IntEntry(3, 100, BLOCK_WOOD),
                                    IntEntry(4, 100, BLOCK_STONE)>>)>> >>),
    \* numerals as strings, and an entry written twice
    RecordOf(<< <<Chars0, PyList(<<PyList(<<PyStr(<<"3">>), PyStr(<<"1", "0", "0">>),
                                            PyStr(<<"4">>)>>),
                                    IntEntry(3, 100, BLOCK_DIRT)>>)>> >>),
    \* an entry of one element and a chunk that is no list
    \* (tests/test_core.py:210-213)
    [seed |-> PyInt(77),
     chunks |-> PyDict(<< <<Chars0, PyList(<<PyList(<<PyStr(<<"b", "a", "d">>)>>)>>)>>,
                          <<Chars1, PyStr(<<"b", "a", "d">>)>> >>)],
    \* seed and sizes of the wrong type, chunks no dict
    [seed |-> PyStr(<<"7", "7">>), chunk_size |-> PyNone,
     height |-> PyStr(<<"1", "8", "0">>), chunks |-> PyList(<<>>)],
    \* none of the keys from_dict reads
    [player |-> PyNone],
    \* an entry of three non-numeric strings
    RecordOf(<< <<Chars0, PyList(<<PyList(<<PyStr(<<"a">>), PyStr(<<"b">>),
                                            PyStr(<<"c">>)>>)>>)>> >>),
    \* an entry with None for wx
    RecordOf(<< <<Chars0, PyList(<<PyList(<<PyNone, PyInt(1), PyInt(2)>>)>>)>> >>),
    \* a chunk key that is no numeral
    RecordOf(<< <<(<<"a", "b", "c">>), PyList(<<>>)>> >>),
    \* a block id that is not registered
    RecordOf(<< <<Chars0, PyList(<<IntEntry(3, 100, 99)>>)>> >>),
    \* air stored in a cell
    RecordOf(<< <<Chars0, PyList(<<IntEntry(3, 100, BLOCK_AIR)>>)>> >>)
  >>

InitLoad ==
    /\ \E seed \in Seeds : world = NewWorld(seed) /\ worldB = NewWorld(seed)
    /\ \E i \in 1..Len(Records) : data = Records[i]
    /\ InitRest

LoadWorld == FromDict(data)

\* cells read after a load: one the records name, one in a chunk they lack
LoadCoords == {<<3, 100>>, <<-1, 40>>}

NextLoad ==
    \/ LoadWorld
    \/ \E c \in LoadCoords : GetBlock(c[1], c[2])
    \/ \E b \in Written : SetBlock(3, 100, b)

SpecLoad == InitLoad /\ [][NextLoad]_vars

\* ------------------------------------------------------------------------
\* SpecInv: an Inventory as its constructor leaves it, under the calls a
\* session makes on it with positive counts and slot indices in 0..26
\* ------------------------------------------------------------------------
\* the number of inventory calls and hotbar events of a run
MaxCalls == 3
\* block ids added: air, one the inventory holds and one it does not
Items == {BLOCK_AIR, BLOCK_DIRT, BLOCK_ORE}
\* counts added: not positive, one, the headroom of the first dirt stack,
\* one more than it, and more than the whole inventory takes
Counts == {-1, 0, 1, 951, 952, 25000}
\* amounts consumed: one, the whole stone stack, the whole first dirt stack,
\* one more than it
Amounts == {1, 16, 48, 49}
\* block ids removed, and counts removed: one, the first dirt stack, one more,
\* and a full stack plus one
Removed == {BLOCK_DIRT, BLOCK_ORE}
RemoveCounts == {1, 48, 49, 1000}
\* slots clicked: the three the constructor fills, the first and the last
\* empty one
Clicked == {0, 1, 2, 3, 26}
\* pygame.K_1 .. pygame.K_9
K_1 == 49
K_9 == 57
Keys == {K_1, K_1 + 1, K_9}
\* event.y of a MOUSEWHEEL event
WheelYs == {-1, 1}

AddItem(block_id, count) ==
    /\ calls < MaxCalls
    /\ \E r \in {add_item(inv, block_id, count)} :
          /\ inv' = r.inv
          /\ op' = [name |-> "add_item", a |-> <<block_id, count>>, ret |-> r.ret]
    /\ calls' = calls + 1
    /\ UNCHANGED <<world, lastSet, loadVars, twinVars, playVars, gameVars>>

\* a call that raises leaves `inv` as it was: the code fails before it writes
ConsumeSelected(amount) ==
    /\ calls < MaxCalls
    /\ \E r \in {consume_selected(inv, amount)} :
          /\ inv' = r.inv
          /\ op' = [name |-> "consume_selected", a |-> <<amount>>,
                    ret |-> r.ret, raised |-> r.raised]
    /\ calls' = calls + 1
    /\ UNCHANGED <<world, lastSet, loadVars, twinVars, playVars, gameVars>>

RemoveItems(block_id, count) ==
    /\ calls < MaxCalls
    /\ \E r \in {remove_items(inv, block_id, count)} :
          /\ inv' = r.inv
          /\ op' = [name |-> "remove_items", a |-> <<block_id, count>>, ret |-> r.ret]
    /\ calls' = calls + 1
    /\ UNCHANGED <<world, lastSet, loadVars, twinVars, playVars, gameVars>>

ClickSlot(index) ==
    /\ calls < MaxCalls
    /\ inv' = click_slot(inv, index)
    /\ op' = [name |-> "click_slot", a |-> <<index>>, ret |-> None]
    /\ calls' = calls + 1
    /\ UNCHANGED <<world, lastSet, loadVars, twinVars, playVars, gameVars>>

\* Game.process_events, KEYDOWN of a number key
KeyDown(key) ==
    /\ calls < MaxCalls
    /\ K_1 <= key /\ key <= K_9
    /\ inv' = [inv EXCEPT !.selected_hotbar = key - K_1]
    /\ op' = [name |-> "keydown", a |-> <<key>>, ret |-> None]
    /\ calls' = calls + 1
    /\ UNCHANGED <<world, lastSet, loadVars, twinVars, playVars, gameVars>>

\* Game.process_events, MOUSEWHEEL
MouseWheel(y) ==
    /\ calls < MaxCalls
    /\ inv' = [inv EXCEPT !.selected_hotbar = (@ - y) % 9]
    /\ op' = [name |-> "mousewheel", a |-> <<y>>, ret |-> None]
    /\ calls' = calls + 1
    /\ UNCHANGED <<world, lastSet, loadVars, twinVars, playVars, gameVars>>

NextInv ==
    \/ \E block_id \in Items, count \in Counts : AddItem(block_id, count)
    \/ \E amount \in Amounts : ConsumeSelected(amount)
    \/ \E block_id \in Removed, count \in RemoveCounts : RemoveItems(block_id, count)
    \/ \E index \in Clicked : ClickSlot(index)
    \/ \E key \in Keys : KeyDown(key)
    \/ \E y \in WheelYs : MouseWheel(y)

SpecInv == Init /\ [][NextInv]_vars

\* ------------------------------------------------------------------------
\* SpecInvRaw: SpecInv, and remove_items and consume_selected called with
\* counts that are not positive (the methods take any int)
\* ------------------------------------------------------------------------
RawCounts == {-1, 0}

NextInvRaw ==
    \/ NextInv
    \/ \E block_id \in Removed, count \in RawCounts : RemoveItems(block_id, count)
    \/ \E amount \in RawCounts : ConsumeSelected(amount)

SpecInvRaw == Init /\ [][NextInvRaw]_vars

\* ------------------------------------------------------------------------
\* SpecInvLoad: a session that loads persisted inventory records, selects
\* hotbar slots with the number keys and the wheel, and reads the selection
\* ------------------------------------------------------------------------
StackEntry(block_id, count) ==
    PyMapping([block_id |-> PyInt(block_id), count |-> PyInt(count)])

InvRecords == <<
    \* what to_dict writes for the constructor's inventory
    inventory_to_dict(NewInventory),
    \* fewer than 27 entries, the selection on the last hotbar slot
    [selected_hotbar |-> PyInt(8),
     slots |-> PyList(<<StackEntry(BLOCK_WOOD, 2), PyNone, StackEntry(BLOCK_ORE, 5)>>)],
    \* more than 27 entries
    [selected_hotbar |-> PyInt(1),
     slots |-> PyList([i \in 1..29 |-> IF i \in {2, 28} THEN StackEntry(BLOCK_STONE, i)
                                       ELSE PyNone])],
    \* a slots field that is no list, a selection that is no int
    [selected_hotbar |-> PyStr(<<"3">>), slots |-> PyStr(<<"b", "a", "d">>)],
    \* neither field
    [version |-> PyInt(1)],
    \* an entry without count
    [selected_hotbar |-> PyInt(0),
     slots |-> PyList(<<StackEntry(BLOCK_DIRT, 7),
                        PyMapping([block_id |-> PyInt(BLOCK_DIRT)])>>)],
    \* an entry that is no mapping
    [selected_hotbar |-> PyInt(0),
     slots |-> PyList(<<PyNone, PyInt(5), StackEntry(BLOCK_DIRT, 7)>>)],
    \* selections outside the hotbar
    [selected_hotbar |-> PyInt(42), slots |-> PyList(<<StackEntry(BLOCK_DIRT, 7)>>)],
    [selected_hotbar |-> PyInt(-5), slots |-> PyList(<<StackEntry(BLOCK_DIRT, 7)>>)]
    >>

InitInvLoad ==
    /\ \E seed \in Seeds : world = NewWorld(seed) /\ worldB = NewWorld(seed)
    /\ \E i \in 1..Len(InvRecords) : data = InvRecords[i]
    /\ InitRest

\* self.inventory.from_dict(data)
LoadInventory ==
    /\ calls < MaxCalls
    /\ \E r \in {inventory_from_dict(inv, data)} :
          /\ inv' = r.inv
          /\ op' = [name |-> "inventory_from_dict", a |-> <<>>,
                    ret |-> IF r.raised THEN "raised" ELSE "ok"]
    /\ calls' = calls + 1
    /\ UNCHANGED <<world, lastSet, loadVars, twinVars, playVars, gameVars>>

GetSelectedBlock ==
    /\ calls < MaxCalls
    /\ \E r \in {get_selected_block(inv)} :
          op' = [name |-> "get_selected_block", a |-> <<>>,
                 ret |-> r.ret, raised |-> r.raised]
    /\ calls' = calls + 1
    /\ UNCHANGED <<inv, world, lastSet, loadVars, twinVars, playVars, gameVars>>

NextInvLoad ==
    \/ LoadInventory
    \/ GetSelectedBlock
    \/ ConsumeSelected(1)
    \/ \E key \in Keys : KeyDown(key)
    \/ \E y \in WheelYs : MouseWheel(y)

SpecInvLoad == InitInvLoad /\ [][NextInvLoad]_vars

\* ------------------------------------------------------------------------
\* The Player over a floor of stone: tiles FloorFirst..FloorLast of row
\* FloorRow, as tests/test_core.py:130-132 builds it
\* ------------------------------------------------------------------------
FloorRow == 4
FloorFirst == 1
FloorLast == 4

RECURSIVE with_floor(_, _, _, _)
with_floor(w, tx, last, ty) ==
    IF tx > last THEN w
    ELSE with_floor(set_block(w, tx, ty, BLOCK_STONE), tx + 1, last, ty)

\* the y of a player whose rectangle stands on the floor
RestY == (FloorRow * TILE_SIZE - player_height) * PX

\* player.update(world, 1 / dtInv, keys)
Update(dtInv, left, right, jump) ==
    \E inner_x \in BOOLEAN, inner_y \in BOOLEAN :
        /\ player' = update(player, world, dtInv, left, right, jump, inner_x, inner_y)
        /\ world' = world_after_update(player, world, dtInv, left, right, jump,
                                       inner_x, inner_y)
        /\ op' = [name |-> "update", a |-> <<dtInv, left, right, jump>>, ret |-> None]
        /\ lastSet' = PrevSet
        /\ UNCHANGED <<loadVars, twinVars, invVars, gameVars>>

\* ------------------------------------------------------------------------
\* SpecFall: a player created at rest in the air above the floor, every
\* column of its rectangle over a floor tile, and the main loop calling
\* update with no key held and dt = 1/60 in every frame
\* ------------------------------------------------------------------------
FallXs == {40, 50, 64, 100}
FallYs == {-700, -100, 0, 10, 45, 76}

InitFall ==
    /\ \E seed \in Seeds :
          /\ world = with_floor(NewWorld(seed), FloorFirst, FloorLast, FloorRow)
          /\ worldB = NewWorld(seed)
    /\ data = NoData
    /\ InitBase
    /\ \E x \in FallXs, y \in FallYs : player = NewPlayer(x, y)

Frame == Update(60, FALSE, FALSE, FALSE) /\ UNCHANGED steps

NextFall == Frame

SpecFall == InitFall /\ [][NextFall]_vars /\ WF_vars(NextFall)

\* ------------------------------------------------------------------------
\* SpecPlay: a player created standing on the floor, frames with keys held
\* and dt of 1/60 or 1/120, and blocks set next to and inside its rectangle
\* ------------------------------------------------------------------------
\* the number of frames and set_block calls of a run
MaxSteps == 5
\* (dtInv, left, right, jump)
PlayInputs == {<<60, FALSE, FALSE, FALSE>>, <<60, FALSE, TRUE, FALSE>>,
               <<60, TRUE, FALSE, FALSE>>, <<60, FALSE, FALSE, TRUE>>,
               <<120, FALSE, FALSE, TRUE>>, <<120, FALSE, FALSE, FALSE>>}
\* blocks set: stone into the tile the standing player's head is in, and the
\* floor tile under it removed
Placed == {<<2, 2, BLOCK_STONE>>, <<2, FloorRow, BLOCK_AIR>>}

InitPlay ==
    /\ \E seed \in Seeds :
          /\ world = with_floor(NewWorld(seed), FloorFirst, FloorLast, FloorRow)
          /\ worldB = NewWorld(seed)
    /\ data = NoData
    /\ InitBase
    /\ player = NewPlayer(64, FloorRow * TILE_SIZE - player_height)

Play(input) ==
    /\ steps < MaxSteps
    /\ Update(input[1], input[2], input[3], input[4])
    /\ steps' = steps + 1

PlaceBlock(tx, ty, block_id) ==
    /\ steps < MaxSteps
    /\ world' = set_block(world, tx, ty, block_id)
    /\ op' = [name |-> "set_block", a |-> <<tx, ty, block_id>>, ret |-> 0]
    /\ lastSet' = PrevSet
    /\ steps' = steps + 1
    /\ UNCHANGED <<loadVars, twinVars, invVars, player, gameVars>>

NextPlay ==
    \/ \E input \in PlayInputs : Play(input)
    \/ \E b \in Placed : PlaceBlock(b[1], b[2], b[3])

SpecPlay == InitPlay /\ [][NextPlay]_vars

\* ------------------------------------------------------------------------
\* SpecEdge: a player walking left of the origin, where int() rounds the
\* negative coordinate up: a floor over the columns EdgeFirst..EdgeLast and a
\* wall two tiles high on the floor's column EdgeWall
\* ------------------------------------------------------------------------
EdgeFirst == -3
EdgeLast == 1
EdgeWall == -2
\* the player starts right of the origin, or two pixels from the wall
EdgeXs == {2, -30}
\* (dtInv, left, right, jump)
EdgeInputs == {<<60, TRUE, FALSE, FALSE>>, <<60, TRUE, FALSE, TRUE>>,
               <<120, TRUE, FALSE, FALSE>>, <<60, FALSE, TRUE, FALSE>>}

InitEdge ==
    /\ \E seed \in Seeds :
          /\ world = set_block(set_block(with_floor(NewWorld(seed), EdgeFirst, EdgeLast,
                                                    FloorRow),
                                         EdgeWall, FloorRow - 1, BLOCK_STONE),
                               EdgeWall, FloorRow - 2, BLOCK_STONE)
          /\ worldB = NewWorld(seed)
    /\ data = NoData
    /\ InitBase
    /\ \E x \in EdgeXs : player = NewPlayer(x, FloorRow * TILE_SIZE - player_height)

NextEdge == \E input \in EdgeInputs : Play(input)

SpecEdge == InitEdge /\ [][NextEdge]_vars

\* ------------------------------------------------------------------------
\* Properties of the World operations (checked under Spec)
\* ------------------------------------------------------------------------
InWorld(w, wy) == 0 <= wy /\ wy < w.height

\* the chunk index that owns column wx
ChunkOf(w, wx) == FloorDiv(wx, w.chunk_size)

\* the block id stored for (wx, wy) in its owning chunk, air when absent or
\* when the chunk is not generated
Stored(w, wx, wy) ==
    IF ChunkOf(w, wx) \in DOMAIN w.chunks
    THEN dict_get(w.chunks[ChunkOf(w, wx)], <<wx, wy>>)
    ELSE BLOCK_AIR

\* C1: get_block(x, y) with y < 0 or y >= height returns air, whatever calls
\* came before it (a set_block on that same coordinate included).
C1_OutOfRangeIsAir ==
    (op.name = "get_block" /\ ~InWorld(world, op.a[2])) => op.ret = BLOCK_AIR

\* a get_block below the world right after a set_block of a non-air id on the
\* same coordinate
C1_Witness ==
    /\ op.name = "get_block"
    /\ op.a[2] >= world.height
    /\ lastSet # NoSet
    /\ lastSet[1] = op.a[1] /\ lastSet[2] = op.a[2] /\ lastSet[3] # BLOCK_AIR
    /\ op.ret = BLOCK_AIR

\* C2: set_block(x, y, B) with 0 <= y < height immediately followed by
\* get_block(x, y) returns B (air when B is air), whatever the cell held.
C2_WriteThenRead ==
    (/\ op.name = "get_block"
     /\ lastSet # NoSet
     /\ lastSet[1] = op.a[1] /\ lastSet[2] = op.a[2]
     /\ InWorld(world, op.a[2]))
    => op.ret = lastSet[3]

\* air written over a cell that generation filled, then read back as air
C2_Witness ==
    /\ op.name = "get_block"
    /\ lastSet = <<op.a[1], op.a[2], BLOCK_AIR>>
    /\ InWorld(world, op.a[2])
    /\ dict_get(Terrain[world.seed, ChunkOf(world, op.a[1])], <<op.a[1], op.a[2]>>)
          # BLOCK_AIR
    /\ op.ret = BLOCK_AIR

\* C3: in every step the set of generated chunks only grows and an already
\* generated chunk keeps every cell, except the one cell a set_block of that
\* step writes: no call regenerates a chunk.
C3_ChunksGeneratedOnce ==
    [][/\ DOMAIN world.chunks \subseteq DOMAIN world'.chunks
       /\ \A cx \in DOMAIN world.chunks :
            \/ world'.chunks[cx] = world.chunks[cx]
            \/ /\ op'.name = "set_block"
               /\ dict_pop(world'.chunks[cx], <<op'.a[1], op'.a[2]>>)
                    = dict_pop(world.chunks[cx], <<op'.a[1], op'.a[2]>>)]_vars

\* ensure_chunks over a range holding a chunk in which a set_block has just
\* replaced generated terrain: the written value is still there
C3_Witness ==
    /\ op.name = "ensure_chunks"
    /\ lastSet # NoSet
    /\ InWorld(world, lastSet[2])
    /\ lastSet[3] # BLOCK_AIR
    /\ op.a[1] <= ChunkOf(world, lastSet[1]) /\ ChunkOf(world, lastSet[1]) <= op.a[2]
    /\ dict_get(Terrain[world.seed, ChunkOf(world, lastSet[1])], <<lastSet[1], lastSet[2]>>)
          # lastSet[3]
    /\ Stored(world, lastSet[1], lastSet[2]) = lastSet[3]

InRect(rect, wx, wy) ==
    /\ rect[1] <= wx /\ wx <= rect[2]
    /\ rect[3] <= wy /\ wy <= rect[4]

\* the triples iter_visible_blocks has just yielded
Yielded == {op.ret[i] : i \in 1..Len(op.ret)}

\* every cell stored in any generated chunk, as (wx, wy, block_id), that lies
\* in rect
StoredInRect(w, rect) ==
    UNION {{<<k[1], k[2], w.chunks[cx][k]>> :
              k \in {c \in DOMAIN w.chunks[cx] : InRect(rect, c[1], c[2])}} :
           cx \in DOMAIN w.chunks}

\* C8: iter_visible_blocks yields exactly the cells stored in generated
\* chunks whose coordinates lie in the inclusive rectangle, and no triple
\* outside the rectangle or holding air.
C8_IterYieldsStoredInRect ==
    op.name = "iter_visible_blocks"
    => /\ Yielded = StoredInRect(world, op.a)
       /\ \A t \in Yielded : InRect(op.a, t[1], t[2]) /\ t[3] # BLOCK_AIR

\* a rectangle over two chunks that yields a written cell and terrain of the
\* other chunk, while cells outside it stay stored
C8_Witness ==
    /\ op.name = "iter_visible_blocks"
    /\ <<3, 100, BLOCK_WOOD>> \in Yielded
    /\ \E t \in Yielded : t[1] < 0
    /\ \E cx \in DOMAIN world.chunks :
          \E k \in DOMAIN world.chunks[cx] : ~InRect(op.a, k[1], k[2])
\* ------------------------------------------------------------------------
\* Properties of saving and loading a World (checked under SpecSave)
\* ------------------------------------------------------------------------
\* C4: from_dict(to_dict(w)) of a World reached by chunk generation and
\* set_block calls does not raise and returns a World with the same seed,
\* chunk width and height, the same generated chunk indices and, for each of
\* them, the same cells; get_block returns the same value in both.
C4_RoundTrip ==
    [][op'.name = "from_dict" =>
         /\ op'.ret = "ok"
         /\ world'.seed = world.seed
         /\ world'.chunk_size = world.chunk_size
         /\ world'.height = world.height
         /\ DOMAIN world'.chunks = DOMAIN world.chunks
         /\ \A c \in DOMAIN world.chunks : world'.chunks[c] = world.chunks[c]
         /\ \A c \in Coords :
               get_block(world', c[1], c[2]).ret = get_block(world, c[1], c[2]).ret]_vars

\* a World loaded back with both chunks generated, one of them left of the
\* origin, and a written cell in each
C4_Witness ==
    /\ op.name = "from_dict" /\ op.ret = "ok"
    /\ DOMAIN world.chunks = {-1, 0}
    /\ Stored(world, 3, 100) = BLOCK_WOOD
    /\ Stored(world, -1, 40) = BLOCK_WOOD

\* ------------------------------------------------------------------------
\* Properties of loading a persisted record (checked under SpecLoad)
\* ------------------------------------------------------------------------
\* C5: World.from_dict returns a World without raising for every persisted
\* record, whatever the types and shapes of its values.
C5_FromDictNeverRaises == op.name = "from_dict" => op.ret = "ok"

\* C6: in every state reached by from_dict of a persisted record followed by
\* get_block / set_block calls, every stored cell holds a registered non-air
\* block id and get_block returns registered ids only.
C6_LoadedWorldValid ==
    loaded =>
      /\ \A c \in DOMAIN world.chunks :
            \A k \in DOMAIN world.chunks[c] :
               world.chunks[c][k] \in BLOCKS \ {BLOCK_AIR}
      /\ op.name = "get_block" => op.ret \in BLOCKS

\* ------------------------------------------------------------------------
\* Properties of chunk generation (checked under SpecGen)
\* ------------------------------------------------------------------------
\* C7: two Worlds created with the same seed hold identical cell maps for
\* every chunk generated in both and not written since, whatever chunks were
\* generated before it, in whatever order, and whatever set_block calls were
\* made on other chunks.
C7_GenerationDeterministic ==
    \A c \in (DOMAIN world.chunks \cap DOMAIN worldB.chunks) \ touched :
        world.chunks[c] = worldB.chunks[c]

\* chunk 0 generated in world after chunk -1 was generated and written, and
\* in worldB before chunk -1
C7_Witness ==
    /\ order = <<Generated(-1), FirstWritten(-1), Generated(0)>>
    /\ orderB = <<Generated(0), Generated(-1)>>
    /\ Stored(world, -1, 40) = BLOCK_WOOD

\* C9: in every chunk produced by generate_chunk, every column x of the chunk
\* holds bedrock at (x, height - 1).
C9_BottomRowIsBedrock ==
    \A c \in DOMAIN worldB.chunks :
        \A wx \in (c * worldB.chunk_size)..(c * worldB.chunk_size + worldB.chunk_size - 1) :
            dict_get(worldB.chunks[c], <<wx, worldB.height - 1>>) = BLOCK_BEDROCK

\* ------------------------------------------------------------------------
\* Properties of the Inventory (checked under SpecInv)
\* ------------------------------------------------------------------------
\* what is left of 999 in the stacks of block_id plus 999 per empty slot, over
\* slots i..27
RECURSIVE HeadroomFrom(_, _, _)
HeadroomFrom(slots, i, block_id) ==
    IF i > Len(slots) THEN 0
    ELSE HeadroomFrom(slots, i + 1, block_id)
         + (IF slots[i] = None THEN 999
            ELSE IF slots[i][1].block_id = block_id
            THEN Max(0, 999 - slots[i][1].count)
            ELSE 0)

\* C10: add_item(b, n) returns true exactly when b is not air, n > 0 and n
\* does not exceed the headroom for b; when b is air or n <= 0 it returns
\* false and leaves every slot unchanged.
C10_AddItemReturn ==
    [][(op'.name = "add_item" /\ calls' = calls + 1) =>
         /\ op'.ret = (/\ op'.a[1] # BLOCK_AIR
                       /\ op'.a[2] > 0
                       /\ op'.a[2] <= HeadroomFrom(inv.slots, 1, op'.a[1]))
         /\ (op'.a[1] = BLOCK_AIR \/ op'.a[2] <= 0) =>
               (op'.ret = FALSE /\ inv'.slots = inv.slots)]_vars

\* an add_item of a block that is not air and of a positive count which
\* returned false, the inventory having no room for all of it
C10_Witness ==
    /\ op.name = "add_item"
    /\ op.a[1] # BLOCK_AIR /\ op.a[2] > 0
    /\ op.ret = FALSE
    /\ \A i \in 1..Len(inv.slots) : inv.slots[i] # None

\* ------------------------------------------------------------------------
\* Properties of the Inventory operations (checked under SpecInv)
\* ------------------------------------------------------------------------
\* the units of block_id held by slots i..Len(slots)
RECURSIVE TotalFrom(_, _, _)
TotalFrom(slots, i, block_id) ==
    IF i > Len(slots) THEN 0
    ELSE TotalFrom(slots, i + 1, block_id)
         + (IF slots[i] # None /\ slots[i][1].block_id = block_id
            THEN slots[i][1].count ELSE 0)

TotalOf(slots, block_id) == TotalFrom(slots, 1, block_id)

BlockIds == BLOCKS

Holds(slots, i, block_id) == slots[i] # None /\ slots[i][1].block_id = block_id

\* C11: for non-air b and n > 0, add_item(b, n) raises the total of b by
\* min(n, capacity), leaves every other block type as it was, tops up the
\* stacks of b in slot order before it makes a new stack, makes new stacks
\* only in the lowest-indexed empty slots, and when it returns true
\* has_items(b, n) is true afterwards.
C11_AddItemFills ==
    [][(op'.name = "add_item" /\ calls' = calls + 1
        /\ op'.a[1] # BLOCK_AIR /\ op'.a[2] > 0) =>
         /\ TotalOf(inv'.slots, op'.a[1])
              = TotalOf(inv.slots, op'.a[1])
                + Min(op'.a[2], HeadroomFrom(inv.slots, 1, op'.a[1]))
         /\ Len(inv'.slots) = Len(inv.slots)
         /\ \A c \in BlockIds \ {op'.a[1]} :
               TotalOf(inv'.slots, c) = TotalOf(inv.slots, c)
         /\ \A i \in 1..Len(inv.slots) :
               (inv.slots[i] # None /\ ~Holds(inv.slots, i, op'.a[1]))
                  => inv'.slots[i] = inv.slots[i]
         /\ \A i \in 1..Len(inv.slots) :
               (inv.slots[i] = None /\ inv'.slots[i] # None) =>
                  /\ Holds(inv'.slots, i, op'.a[1])
                  /\ \A j \in 1..Len(inv.slots) :
                        Holds(inv.slots, j, op'.a[1]) => inv'.slots[j][1].count >= 999
                  /\ \A j \in 1..(i - 1) :
                        inv.slots[j] = None => inv'.slots[j] = ItemStack(op'.a[1], 999)
         /\ \A j \in 1..Len(inv.slots) :
               (Holds(inv.slots, j, op'.a[1]) /\ inv'.slots[j][1].count < 999) =>
                  \A k \in (j + 1)..Len(inv.slots) : inv'.slots[k] = inv.slots[k]
         /\ op'.ret => has_items(inv', op'.a[1], op'.a[2])]_vars

\* an add_item that topped the first dirt stack up to 999 and put the one
\* unit left into the first empty slot
C11_Witness ==
    /\ op.name = "add_item" /\ op.a = <<BLOCK_DIRT, 952>> /\ op.ret = TRUE
    /\ inv.slots[1] = ItemStack(BLOCK_DIRT, 999)
    /\ inv.slots[4] = ItemStack(BLOCK_DIRT, 1)
    /\ inv.slots[5] = None

\* C12: remove_items(b, n) is all-or-nothing. When the slots hold fewer than
\* n units of b it returns false and no slot changes; otherwise it returns
\* true, the total of b drops by exactly n, stacks of other blocks are
\* untouched, units are taken from the slots in increasing index order, and a
\* slot that reaches zero becomes empty.
C12_RemoveAllOrNothing ==
    [][(op'.name = "remove_items" /\ calls' = calls + 1) =>
         IF TotalOf(inv.slots, op'.a[1]) < op'.a[2]
         THEN op'.ret = FALSE /\ inv' = inv
         ELSE /\ op'.ret = TRUE
              /\ TotalOf(inv'.slots, op'.a[1]) = TotalOf(inv.slots, op'.a[1]) - op'.a[2]
              /\ Len(inv'.slots) = Len(inv.slots)
              /\ inv'.dragging = inv.dragging
              /\ inv'.selected_hotbar = inv.selected_hotbar
              /\ \A i \in 1..Len(inv.slots) :
                    IF Holds(inv.slots, i, op'.a[1])
                    THEN \/ inv'.slots[i] = None
                         \/ /\ Holds(inv'.slots, i, op'.a[1])
                            /\ 1 <= inv'.slots[i][1].count
                            /\ inv'.slots[i][1].count <= inv.slots[i][1].count
                            /\ \A k \in (i + 1)..Len(inv.slots) :
                                  inv'.slots[k] = inv.slots[k]
                    ELSE inv'.slots[i] = inv.slots[i]]_vars

\* C13: consume_selected(amount) returns none and changes nothing when the
\* selected hotbar slot is empty or holds fewer than amount; otherwise it
\* returns the slot's block id, lowers that slot's count by exactly amount,
\* empties the slot when the count reaches zero, and leaves every other slot
\* and the dragged stack unchanged.
C13_ConsumeSelected ==
    [][(op'.name = "consume_selected" /\ calls' = calls + 1) =>
         /\ ~op'.raised
         /\ IF \/ inv.slots[inv.selected_hotbar + 1] = None
               \/ inv.slots[inv.selected_hotbar + 1][1].count < op'.a[1]
            THEN op'.ret = None /\ inv' = inv
            ELSE /\ op'.ret = <<inv.slots[inv.selected_hotbar + 1][1].block_id>>
                 /\ inv'.slots[inv.selected_hotbar + 1] =
                       IF inv.slots[inv.selected_hotbar + 1][1].count = op'.a[1]
                       THEN None
                       ELSE ItemStack(inv.slots[inv.selected_hotbar + 1][1].block_id,
                                      inv.slots[inv.selected_hotbar + 1][1].count - op'.a[1])
                 /\ Len(inv'.slots) = Len(inv.slots)
                 /\ \A i \in 1..Len(inv.slots) :
                       i # inv.selected_hotbar + 1 => inv'.slots[i] = inv.slots[i]
                 /\ inv'.dragging = inv.dragging
                 /\ inv'.selected_hotbar = inv.selected_hotbar]_vars

\* a consume_selected that took the whole stack of the selected slot, a slot
\* other than the first, while a stack is dragged
C13_Witness ==
    /\ op.name = "consume_selected" /\ op.a = <<16>> /\ op.ret = <<BLOCK_STONE>>
    /\ inv.selected_hotbar = 1
    /\ inv.slots[2] = None
    /\ inv.dragging # None

\* C14: from a new Inventory, after any sequence of add_item,
\* consume_selected, remove_items and click_slot calls with positive counts
\* and slot indices in 0..26, the inventory has exactly 27 slots and every
\* stack present, in a slot or dragged, has a count in 1..999.
C14_SlotInvariant ==
    /\ Len(inv.slots) = 27
    /\ \A i \in 1..Len(inv.slots) :
          inv.slots[i] # None =>
             (1 <= inv.slots[i][1].count /\ inv.slots[i][1].count <= 999)
    /\ inv.dragging # None =>
          (1 <= inv.dragging[1].count /\ inv.dragging[1].count <= 999)

\* a full stack is dragged, every slot but the one it came from and the one
\* a remove_items emptied is a stack
C14_Witness ==
    /\ op.name = "remove_items" /\ op.ret = TRUE
    /\ inv.dragging # None /\ inv.dragging[1].count = 999
    /\ inv.slots[1] = None
    /\ \E i \in 1..Len(inv.slots) : inv.slots[i] # None /\ inv.slots[i][1].count = 998

\* the units of block_id in the slots and in the hand
Carried(i, block_id) ==
    TotalOf(i.slots, block_id)
    + (IF i.dragging # None /\ i.dragging[1].block_id = block_id
       THEN i.dragging[1].count ELSE 0)

\* C15: click_slot(i) follows the drag and drop reference. With nothing
\* dragged the stack of slot i goes to the hand; with a stack dragged and
\* slot i empty the stack is dropped there; with d units dragged and slot i
\* holding t < 999 of the same block the slot becomes min(999, t + d) and the
\* hand keeps the rest, the drag ending exactly when nothing is left; in
\* every other case hand and slot exchange. No other slot changes and the
\* units of each block over slots and hand stay the same.
C15_ClickSlotReference ==
    [][(op'.name = "click_slot" /\ calls' = calls + 1) =>
         /\ IF inv.dragging = None
            THEN inv'.dragging = inv.slots[op'.a[1] + 1] /\ inv'.slots[op'.a[1] + 1] = None
            ELSE IF inv.slots[op'.a[1] + 1] = None
            THEN inv'.slots[op'.a[1] + 1] = inv.dragging /\ inv'.dragging = None
            ELSE IF /\ inv.slots[op'.a[1] + 1][1].block_id = inv.dragging[1].block_id
                    /\ inv.slots[op'.a[1] + 1][1].count < 999
            THEN /\ inv'.slots[op'.a[1] + 1] =
                       ItemStack(inv.dragging[1].block_id,
                                 Min(999, inv.slots[op'.a[1] + 1][1].count
                                          + inv.dragging[1].count))
                 /\ inv'.dragging =
                       IF inv.slots[op'.a[1] + 1][1].count + inv.dragging[1].count <= 999
                       THEN None
                       ELSE ItemStack(inv.dragging[1].block_id,
                                      inv.slots[op'.a[1] + 1][1].count
                                      + inv.dragging[1].count - 999)
            ELSE /\ inv'.slots[op'.a[1] + 1] = inv.dragging
                 /\ inv'.dragging = inv.slots[op'.a[1] + 1]
         /\ Len(inv'.slots) = Len(inv.slots)
         /\ \A i \in 1..Len(inv.slots) :
               i # op'.a[1] + 1 => inv'.slots[i] = inv.slots[i]
         /\ inv'.selected_hotbar = inv.selected_hotbar
         /\ \A c \in BlockIds : Carried(inv', c) = Carried(inv, c)]_vars

\* a click that merged 48 dragged units into a slot of 952: the slot is full
\* and one unit stays in the hand
C15_Witness ==
    /\ op.name = "click_slot" /\ op.a = <<0>>
    /\ inv.slots[1] = ItemStack(BLOCK_DIRT, 999)
    /\ inv.dragging = ItemStack(BLOCK_DIRT, 1)

\* ------------------------------------------------------------------------
\* Properties of loading an inventory (checked under SpecInvLoad)
\* ------------------------------------------------------------------------
IsStack(slot) ==
    /\ Len(slot) = 1
    /\ DOMAIN slot[1] = {"block_id", "count"}

\* C16: Inventory.from_dict completes without raising for every persisted
\* record, whatever the type of its slots field and the shape of each entry,
\* and leaves exactly 27 slots, each empty or a stack.
C16_InventoryLoadTotal ==
    op.name = "inventory_from_dict" =>
       /\ op.ret = "ok"
       /\ Len(inv.slots) = 27
       /\ \A i \in 1..Len(inv.slots) : inv.slots[i] = None \/ IsStack(inv.slots[i])

\* C17: in every state of a session of number keys, wheel events and loads
\* of persisted inventory records, selected_hotbar is in 0..8.
C17_SelectedInHotbar == inv.selected_hotbar \in 0..8

\* ------------------------------------------------------------------------
\* Properties of Player.update (checked under SpecPlay and SpecFall)
\* ------------------------------------------------------------------------
\* the collision rectangle of player p
BoxOf(p) == player_rect(p, FALSE, FALSE, FALSE, FALSE)

\* the tile columns and rows rectangle r covers
ColumnsOf(r) == FloorDiv(r.x, TILE_SIZE)..FloorDiv(r.x + r.w - 1, TILE_SIZE)
RowsOf(r) == FloorDiv(r.y, TILE_SIZE)..FloorDiv(r.y + r.h - 1, TILE_SIZE)

\* no solid tile of w overlaps the rectangle of p
BoxFree(p, w) ==
    \A tx \in ColumnsOf(BoxOf(p)), ty \in RowsOf(BoxOf(p)) : ~solid(Stored(w, tx, ty))

\* the bottom edge of the rectangle of p lies on the top of a solid tile
Rests(p, w) ==
    /\ (BoxOf(p).y + BoxOf(p).h) % TILE_SIZE = 0
    /\ \E tx \in ColumnsOf(BoxOf(p)) :
          solid(Stored(w, tx, (BoxOf(p).y + BoxOf(p).h) \div TILE_SIZE))

\* C18 as stated: for every world and every player with on_ground true, one
\* update with jump held and dt <= 1/60 ends with vy < 0 and on_ground false.
C18_JumpAlways ==
    [][(op'.name = "update" /\ steps' = steps + 1 /\ player.on_ground /\ op'.a[4]) =>
         (player'.vy < 0 /\ ~player'.on_ground)]_vars

\* C18 (amended): for every player with on_ground true whose rectangle no
\* solid tile overlaps, one update with jump held and dt <= 1/60 ends with
\* vy < 0 and on_ground false.
C18_JumpFromFreeBox ==
    [][(op'.name = "update" /\ steps' = steps + 1 /\ player.on_ground /\ op'.a[4]
        /\ BoxFree(player, world)) =>
         (player'.vy < 0 /\ ~player'.on_ground)]_vars

\* a player that left the floor in a frame with jump held: it moves up and
\* is above its resting height
C18_Witness ==
    /\ op.name = "update" /\ op.a[4]
    /\ player.vy < 0 /\ ~player.on_ground
    /\ player.y < RestY

\* C19: a player that starts at rest in free air above a floor spanning the
\* columns of its rectangle, stepped with no input and dt = 1/60, eventually
\* has on_ground true with its rectangle standing on top of the floor row.
C19_Landing == <>(player.on_ground /\ player.y = RestY /\ player.vy = 0)

\* the player has landed after a fall from above the world
C19_Witness ==
    /\ op.name = "update"
    /\ player.on_ground /\ player.y = RestY
    /\ player.x = 50 * PX

\* C20: after every update on_ground is true exactly when the bottom edge of
\* the rectangle rests on the top of a solid tile beneath it, and a player
\* with no input that is on the ground of a floor that is not modified is on
\* the ground after the next frame of dt = 1/60.
C20_GroundContactFaithful ==
    [][op'.name = "update" =>
         /\ player'.on_ground <=> Rests(player', world')
         /\ player.on_ground => player'.on_ground]_vars

\* ------------------------------------------------------------------------
\* Properties of the chunk maps (checked under Spec)
\* ------------------------------------------------------------------------
\* the cells stored in the map of chunk cx lie in its columns and in the world
OwnsCells(w, cx) ==
    \A k \in DOMAIN w.chunks[cx] :
        /\ cx * w.chunk_size <= k[1] /\ k[1] < (cx + 1) * w.chunk_size
        /\ 0 <= k[2] /\ k[2] < w.height

\* C25: in every World reached by generation and set_block, every cell
\* stored in the map of chunk c has c * chunk_width <= x < (c + 1) *
\* chunk_width and 0 <= y < height.
C25_ChunkOwnsItsCells == \A cx \in DOMAIN world.chunks : OwnsCells(world, cx)

\* both chunks are generated and a set_block has stored wood in the last
\* column of the chunk left of the origin
C25_Witness ==
    /\ DOMAIN world.chunks = ChunkIdx
    /\ op.name = "set_block" /\ op.a = <<-1, 40, BLOCK_WOOD>>
    /\ <<-1, 40>> \in DOMAIN world.chunks[-1]

\* C26: each triple (x, y, b) that iter_visible_blocks yields satisfies
\* get_block(x, y) = b, and no coordinate is yielded twice in one iteration.
C26_IterAgreesWithLookup ==
    op.name = "iter_visible_blocks"
    => /\ \A i \in 1..Len(op.ret) :
             get_block(world, op.ret[i][1], op.ret[i][2]).ret = op.ret[i][3]
       /\ \A i, j \in 1..Len(op.ret) :
             (op.ret[i][1] = op.ret[j][1] /\ op.ret[i][2] = op.ret[j][2]) => i = j

\* an iteration over both chunks that yields terrain left of the origin and
\* a cell written by set_block right of it
C26_Witness ==
    /\ op.name = "iter_visible_blocks" /\ op.a = <<-1, 3, 99, 100>>
    /\ \E i \in 1..Len(op.ret) : op.ret[i][1] = -1
    /\ \E i \in 1..Len(op.ret) : op.ret[i] = <<3, 100, BLOCK_WOOD>>

\* ------------------------------------------------------------------------
\* Properties of the collision passes (checked under SpecEdge and SpecPlay)
\* ------------------------------------------------------------------------
\* C27: if the player's rectangle overlaps no solid tile before an update
\* with dt <= 1/60 during which the world is not modified, it overlaps no
\* solid tile after it, for every input and left of the origin as well.
C27_NoPenetration ==
    [][(op'.name = "update" /\ BoxFree(player, world)) => BoxFree(player', world')]_vars

\* a player left of the origin that walked into the wall and was set back
\* to the wall's right edge
C27_Witness ==
    /\ op.name = "update" /\ op.a[2]
    /\ BoxOf(player).x = (EdgeWall + 1) * TILE_SIZE
    /\ player.vx = 0
    /\ steps > 1

\* the same step property where blocks are set between the frames
C27_NoPenetrationPlay ==
    [][(op'.name = "update" /\ steps' = steps + 1 /\ BoxFree(player, world))
          => BoxFree(player', world')]_vars

\* ------------------------------------------------------------------------
\* SpecCraft: Game.craft called on inventories of every fill state, between
\* add_item and click_slot calls
\* ------------------------------------------------------------------------
\* an inventory whose 27 slots hold `count` of `block_id` each, but slot 0,
\* which holds `count0` of `block_id0`
Stocked(block_id0, count0, block_id, count) ==
    [slots |-> [i \in 1..27 |->
                  IF i = 1 THEN <<[block_id |-> block_id0, count |-> count0]>>
                  ELSE <<[block_id |-> block_id, count |-> count]>>],
     selected_hotbar |-> 0,
     dragging |-> None]

\* the inventory of a new game, one with every slot a full stack of dirt,
\* and one with a full stack of ore and 26 full stacks of stone
CraftInventories ==
    {NewInventory,
     Stocked(BLOCK_DIRT, 999, BLOCK_DIRT, 999),
     Stocked(BLOCK_ORE, 999, BLOCK_STONE, 999)}

\* recipe indices: below the list, both recipes, past the list
RecipeIndices == {-1, 0, 1, 2}

InitCraft ==
    /\ \E seed \in Seeds : world = NewWorld(seed) /\ worldB = NewWorld(seed)
    /\ data = NoData
    /\ op = NoCall
    /\ lastSet = NoSet
    /\ loaded = FALSE
    /\ order = <<>>
    /\ orderB = <<>>
    /\ touched = {}
    /\ inv \in CraftInventories
    /\ calls = 0
    /\ steps = 0
    /\ game = NewGame
    /\ file = NoFile
    /\ saved = NoSession
    /\ player = NewPlayer(64, 0)

\* Game.craft(recipe_index)
Craft(recipe_index) ==
    /\ calls < MaxCalls
    /\ \E r \in {craft(inv, recipe_index)} :
          /\ inv' = r.inv
          /\ op' = [name |-> "craft", a |-> <<recipe_index>>, ret |-> r.ret]
    /\ calls' = calls + 1
    /\ UNCHANGED <<world, lastSet, loadVars, twinVars, playVars, gameVars>>

NextCraft ==
    \/ \E recipe_index \in RecipeIndices : Craft(recipe_index)
    \/ \E block_id \in Items, count \in Counts : AddItem(block_id, count)
    \/ \E index \in Clicked : ClickSlot(index)

SpecCraft == InitCraft /\ [][NextCraft]_vars

\* what recipe k takes of block_id, and what it gives
RECURSIVE TakenFrom(_, _, _)
TakenFrom(inputs, k, block_id) ==
    IF k > Len(inputs) THEN 0
    ELSE TakenFrom(inputs, k + 1, block_id)
         + (IF inputs[k][1] = block_id THEN inputs[k][2] ELSE 0)

Given(recipe, block_id) == IF recipe.output[1] = block_id THEN recipe.output[2] ELSE 0

\* C29: craft(i) returns false and leaves the inventory as it was, or
\* returns true and the total of every block type has changed by exactly
\* the recipe's output count minus its input count.
C29_CraftAllOrNothing ==
    [][op'.name = "craft" /\ calls' = calls + 1
         => \/ ~op'.ret /\ inv' = inv
            \/ /\ op'.ret
               /\ op'.a[1] \in 0..(Len(recipes) - 1)
               /\ \A b \in BlockIds :
                     TotalOf(inv'.slots, b)
                        = TotalOf(inv.slots, b)
                            - TakenFrom(recipes[op'.a[1] + 1].inputs, 1, b)
                            + Given(recipes[op'.a[1] + 1], b)]_vars

\* a craft that returned true and did what its recipe says
C29_Witness ==
    /\ op.name = "craft"
    /\ op.ret
    /\ TotalOf(inv.slots, BLOCK_STONE) = 17
    /\ TotalOf(inv.slots, BLOCK_DIRT) = 44

\* ------------------------------------------------------------------------
\* SpecMine: handle_mining_and_placing called frame after frame with the
\* mouse over a tile and any buttons held, dt of 1/60 or 1/4 second, and
\* panels opened and closed in between. The player
\* stands on the floor of the tests near the top of the world, or at the
\* bottom of a shaft on the row above the world's last row
\* ------------------------------------------------------------------------
\* the row the player of the deep scene stands on
ShaftRow == WORLD_HEIGHT - 2

\* the World of the deep scene: terrain with the two cells of the player's
\* body dug out
with_shaft(w) ==
    set_block(set_block(w, 2, ShaftRow - 1, BLOCK_AIR), 2, ShaftRow - 2, BLOCK_AIR)

\* the number of calls of a run
MaxFrames == 3

\* mouse targets: above the world, next to the standing player, inside its
\* box, the floor under it, the first column out of reach; the last row of
\* the world under the shaft, and the row below the world
Targets ==
    {<<3, -1>>, <<3, 3>>, <<2, 3>>, <<2, FloorRow>>, <<11, 3>>,
     <<2, WORLD_HEIGHT - 1>>, <<2, WORLD_HEIGHT>>}

\* hotbar slots selected: dirt in a new game, and an empty slot
Selected == {0, 8}

\* (left, right) of mouse_buttons
Buttons == {<<FALSE, FALSE>>, <<TRUE, FALSE>>, <<FALSE, TRUE>>, <<TRUE, TRUE>>}

\* 1 / dt: a frame at FPS, and a frame that took a quarter of a second
MineDts == {60, 4}

\* keys of process_events that open and close panels
PanelKeys == {"e", "escape", "c"}

InitMine ==
    /\ \E seed \in Seeds :
          /\ worldB = NewWorld(seed)
          /\ \/ /\ world = with_floor(NewWorld(seed), FloorFirst, FloorLast, FloorRow)
                /\ player = NewPlayer(64, FloorRow * TILE_SIZE - player_height)
             \/ /\ world = with_shaft(NewWorld(seed))
                /\ player = NewPlayer(64, ShaftRow * TILE_SIZE - player_height)
    /\ data = NoData
    /\ op = NoCall
    /\ lastSet = NoSet
    /\ loaded = FALSE
    /\ order = <<>>
    /\ orderB = <<>>
    /\ touched = {}
    /\ \E i \in {NewInventory, Stocked(BLOCK_DIRT, 999, BLOCK_DIRT, 999)},
          slot \in Selected : inv = [i EXCEPT !.selected_hotbar = slot]
    /\ calls = 0
    /\ steps = 0
    /\ game = NewGame
    /\ file = NoFile
    /\ saved = NoSession

\* Game.handle_mining_and_placing(dt, mouse_pos, mouse_buttons), the mouse
\* over tile `target`
HandleMiningAndPlacing(dtInv, target, left, right) ==
    /\ steps < MaxFrames
    /\ \E r \in {handle_mining_and_placing(Hands(game, world, inv), player,
                                           dtInv, target, left, right)} :
          /\ game' = r.game
          /\ world' = r.world
          /\ inv' = r.inv
    /\ op' = [name |-> "handle_mining_and_placing",
              a |-> <<dtInv, target, left, right>>, ret |-> None]
    /\ lastSet' = PrevSet
    /\ steps' = steps + 1
    /\ UNCHANGED <<loadVars, twinVars, calls, player, file, saved>>

\* Game.process_events, KEYDOWN of e or i, ESCAPE, c
PanelKey(key) ==
    /\ steps < MaxFrames
    /\ steps' = steps + 1
    /\ game' =
         CASE key = "e" -> [game EXCEPT !.show_inventory = ~@,
                                        !.show_menu = FALSE, !.show_crafting = FALSE]
           [] key = "escape" ->
                IF game.show_inventory THEN [game EXCEPT !.show_inventory = FALSE]
                ELSE IF game.show_crafting THEN [game EXCEPT !.show_crafting = FALSE]
                ELSE [game EXCEPT !.show_menu = ~@]
           [] key = "c" -> [game EXCEPT !.show_crafting = ~@,
                                        !.show_menu = FALSE, !.show_inventory = FALSE]
    /\ op' = [name |-> "keydown", a |-> <<key>>, ret |-> None]
    /\ UNCHANGED <<world, lastSet, loadVars, twinVars, invVars, player, file, saved>>

NextMine ==
    \/ \E dtInv \in MineDts, target \in Targets, b \in Buttons :
          HandleMiningAndPlacing(dtInv, target, b[1], b[2])
    \/ \E key \in PanelKeys : PanelKey(key)

SpecMine == InitMine /\ [][NextMine]_vars

\* ------------------------------------------------------------------------
\* Properties of Game.handle_mining_and_placing (checked under SpecMine)
\* ------------------------------------------------------------------------
\* the step is a call of handle_mining_and_placing
Handled == op'.name = "handle_mining_and_placing" /\ steps' = steps + 1

\* the stack in the selected hotbar slot, None when the slot is empty
SelectedStack(i) == i.slots[i.selected_hotbar + 1]

\* the conditions of a placement, for the call's target and right button
MayPlace(g, w, p, i, target, right) ==
    /\ right
    /\ ~g.last_mouse_right
    /\ ~panel_open(g)
    /\ Abs(target[1] - player_block_pos(p)[1]) <= 8
    /\ Abs(target[2] - player_block_pos(p)[2]) <= 8
    /\ Stored(w, target[1], target[2]) = BLOCK_AIR
    /\ SelectedStack(i) # None
    /\ SelectedStack(i)[1].block_id # BLOCK_AIR
    /\ ~colliderect(place_rect(target), BoxOf(p))

\* inventory j is inventory i with one unit less in the selected slot
OneUnitLess(i, j) ==
    j = [i EXCEPT !.slots[i.selected_hotbar + 1] =
            IF @[1].count = 1 THEN None
            ELSE <<[@[1] EXCEPT !.count = @ - 1]>>]

\* World v is World w with cell `target` holding block_id and every other
\* cell as it was
OneCellSet(w, v, target, block_id) ==
    /\ Stored(v, target[1], target[2]) = block_id
    /\ \A cx \in DOMAIN w.chunks :
          /\ DOMAIN v.chunks[cx] \subseteq DOMAIN w.chunks[cx] \cup {target}
          /\ \A k \in DOMAIN w.chunks[cx] \ {target} :
                k \in DOMAIN v.chunks[cx] /\ v.chunks[cx][k] = w.chunks[cx][k]

\* no cell of a generated chunk of w differs in v
NoCellChanged(w, v) == \A cx \in DOMAIN w.chunks : v.chunks[cx] = w.chunks[cx]

\* C23: a call with the right button down and the left button up places
\* when no panel is open, the button was up in the call before, the target
\* is within 8 tiles of the player's centre tile, the target cell is air,
\* the selected slot holds a placeable stack and the target tile does not
\* overlap the player's box: one unit leaves the selected stack and the
\* target cell becomes that block type. In every other case neither the
\* world nor the inventory changes.
C23_PlacementRule ==
    [][(Handled /\ ~op'.a[3])
         => IF MayPlace(game, world, player, inv, op'.a[2], op'.a[4])
            THEN /\ OneUnitLess(inv, inv')
                 /\ OneCellSet(world, world', op'.a[2], SelectedStack(inv)[1].block_id)
            ELSE /\ inv' = inv
                 /\ NoCellChanged(world, world')]_vars

\* the same rule for targets inside the world's rows
C23_PlacementRuleInWorld ==
    [][(Handled /\ ~op'.a[3] /\ InWorld(world, op'.a[2][2]))
         => IF MayPlace(game, world, player, inv, op'.a[2], op'.a[4])
            THEN /\ OneUnitLess(inv, inv')
                 /\ OneCellSet(world, world', op'.a[2], SelectedStack(inv)[1].block_id)
            ELSE /\ inv' = inv
                 /\ NoCellChanged(world, world')]_vars

\* the mouse targets and the cells next to the one under the shaft
BottomCells ==
    Targets \cup {<<1, WORLD_HEIGHT - 1>>, <<3, WORLD_HEIGHT - 1>>}

\* C24: a cell that holds bedrock before a call of handle_mining_and_placing
\* holds bedrock after it and is not a mining target with progress above 0;
\* a call with the mouse on such a cell adds no bedrock to the inventory and
\* leaves the progress 0 when the left button is held and no panel is open.
C24_BedrockStays ==
    [][Handled
         => /\ \A c \in BottomCells :
                  Stored(world, c[1], c[2]) = BLOCK_BEDROCK
                     => /\ Stored(world', c[1], c[2]) = BLOCK_BEDROCK
                        /\ game'.mining_target = <<c>> => game'.mining_progress = 0
            /\ Stored(world, op'.a[2][1], op'.a[2][2]) = BLOCK_BEDROCK
                  => /\ TotalOf(inv'.slots, BLOCK_BEDROCK)
                          = TotalOf(inv.slots, BLOCK_BEDROCK)
                     /\ op'.a[3] /\ ~panel_open(game) => game'.mining_progress = 0]_vars

\* the left button held on reachable bedrock for the third call in a row
C24_Witness ==
    /\ op.name = "handle_mining_and_placing"
    /\ steps = MaxFrames
    /\ op.a[3]
    /\ game.last_mouse_left
    /\ ~panel_open(game)
    /\ can_reach(player, op.a[2][1], op.a[2][2])
    /\ Stored(world, op.a[2][1], op.a[2][2]) = BLOCK_BEDROCK
    /\ game.mining_progress = 0

\* C28: when a call of handle_mining_and_placing leaves a cell air that held
\* a block before, the inventory's total of that block's drop type is one
\* more than before the call.
C28_MiningConserves ==
    [][Handled
         => \A c \in Targets :
               (Stored(world, c[1], c[2]) # BLOCK_AIR /\ Stored(world', c[1], c[2]) = BLOCK_AIR)
                  => TotalOf(inv'.slots, drop_of(Stored(world, c[1], c[2])))
                       = TotalOf(inv.slots, drop_of(Stored(world, c[1], c[2]))) + 1]_vars

\* the same for inventories that have room for the drop
C28_MiningConservesWithRoom ==
    [][Handled
         => \A c \in Targets :
               (/\ Stored(world, c[1], c[2]) # BLOCK_AIR
                /\ Stored(world', c[1], c[2]) = BLOCK_AIR
                /\ HeadroomFrom(inv.slots, 1, drop_of(Stored(world, c[1], c[2]))) > 0)
                  => TotalOf(inv'.slots, drop_of(Stored(world, c[1], c[2])))
                       = TotalOf(inv.slots, drop_of(Stored(world, c[1], c[2]))) + 1]_vars

\* ------------------------------------------------------------------------
\* SpecSession: a Game that runs frames, has slots clicked, saves with F5,
\* loads with F9, and whose save file is replaced from outside by other
\* documents, well formed and malformed; at the start there is no save file
\* or one with a malformed slot entry. The World is one that from_dict
\* returned for a save whose chunk 0 holds the floor tiles only, so that
\* frames generate no terrain
\* ------------------------------------------------------------------------
PlatformWorld(seed) ==
    [NewWorld(seed) EXCEPT
       !.chunks = (0 :> [k \in {<<tx, FloorRow>> : tx \in FloorFirst..FloorLast}
                           |-> BLOCK_STONE])]

\* the document of another session, saved by save_game
OtherSave ==
    save_game(Session(PlatformWorld(1332),
                      NewPlayer(96, FloorRow * TILE_SIZE - player_height),
                      [NewInventory EXCEPT !.selected_hotbar = 2],
                      5 * TICKS))

\* the documents put in place of the save file: OtherSave; OtherSave with a
\* slot entry that lacks its count; with a player whose y is no number;
\* with a day_timer of null; with a world that is a list; the empty object;
\* a list
SessionFiles == <<
    OtherSave,
    [OtherSave EXCEPT !.v.inventory =
        PyMapping([selected_hotbar |-> PyInt(1),
                   slots |-> PyList(<<StackEntry(BLOCK_ORE, 5),
                                      PyMapping([block_id |-> PyInt(BLOCK_DIRT)])>>)])],
    [OtherSave EXCEPT !.v.player =
        PyMapping([x |-> PyFloat(10 * PX, PX), y |-> PyStr(<<"a">>)])],
    [OtherSave EXCEPT !.v.day_timer = PyNone],
    [OtherSave EXCEPT !.v.world = PyList(<<>>)],
    PyMapping(<<>>),
    PyList(<<>>)>>

\* held keys of a frame: (left, right, jump)
SessionKeys == {<<FALSE, FALSE, FALSE>>, <<TRUE, FALSE, FALSE>>}

\* slots clicked in the inventory panel
SessionClicked == {0, 3}

InitSession ==
    /\ \E seed \in Seeds : world = PlatformWorld(seed) /\ worldB = NewWorld(seed)
    /\ data = NoData
    /\ op = NoCall
    /\ lastSet = NoSet
    /\ loaded = TRUE
    /\ order = <<>>
    /\ orderB = <<>>
    /\ touched = {}
    /\ inv = NewInventory
    /\ calls = 0
    /\ steps = 0
    /\ game = NewGame
    /\ file \in {NoFile, SessionFiles[2]}
    /\ saved = NoSession
    /\ player = NewPlayer(64, FloorRow * TILE_SIZE - player_height)

\* Game.update(1 / dtInv) with the keys held and no mouse button down
GameUpdate(dtInv, left, right, jump) ==
    /\ steps < MaxFrames
    /\ IF panel_open(game)
       THEN /\ game' = [game EXCEPT !.day_timer = (@ + TICKS \div dtInv) % day_length]
            /\ UNCHANGED <<world, player, inv>>
       ELSE \E inner_x \in BOOLEAN, inner_y \in BOOLEAN :
              \E h \in {handle_mining_and_placing(
                          Hands([game EXCEPT !.day_timer =
                                    (@ + TICKS \div dtInv) % day_length],
                                world_after_update(player, world, dtInv, left, right,
                                                   jump, inner_x, inner_y),
                                inv),
                          update(player, world, dtInv, left, right, jump,
                                 inner_x, inner_y),
                          dtInv, <<0, 0>>, FALSE, FALSE)} :
                 /\ player' = update(player, world, dtInv, left, right, jump,
                                     inner_x, inner_y)
                 /\ game' = h.game
                 /\ world' = h.world
                 /\ inv' = h.inv
    /\ op' = [name |-> "game_update", a |-> <<dtInv, left, right, jump>>, ret |-> None]
    /\ lastSet' = PrevSet
    /\ steps' = steps + 1
    /\ UNCHANGED <<loadVars, twinVars, calls, file, saved>>

\* Game.save_game (F5)
SaveGame ==
    /\ calls < MaxCalls
    /\ file' = save_game(Session(world, player, inv, game.day_timer))
    /\ saved' = Session(world, player, inv, game.day_timer)
    /\ op' = [name |-> "save_game", a |-> <<>>, ret |-> None]
    /\ calls' = calls + 1
    /\ UNCHANGED <<world, lastSet, loadVars, twinVars, inv, playVars, game>>

\* Game.load_game (F9): an exception leaves the Game as the statements
\* before it made it
LoadGame ==
    /\ calls < MaxCalls
    /\ \E rnd \in Seeds :
          \E r \in {load_game(Session(world, player, inv, game.day_timer), file, rnd)} :
             /\ world' = r.s.world
             /\ player' = r.s.player
             /\ inv' = r.s.inv
             /\ game' = [game EXCEPT !.day_timer = r.s.day_timer]
             /\ op' = [name |-> "load_game", a |-> <<>>, ret |-> r.ret,
                       raised |-> r.raised]
    /\ calls' = calls + 1
    /\ UNCHANGED <<lastSet, loadVars, twinVars, steps, file, saved>>

\* the save file is replaced by document k
WriteFile(k) ==
    /\ calls < MaxCalls
    /\ file' = SessionFiles[k]
    /\ saved' = NoSession
    /\ op' = [name |-> "write_file", a |-> <<k>>, ret |-> None]
    /\ calls' = calls + 1
    /\ UNCHANGED <<world, lastSet, loadVars, twinVars, inv, playVars, game>>

\* a click on a slot of the inventory panel; with fewer than index + 1
\* slots self.slots[index] raises IndexError before anything is written
PanelClick(index) ==
    /\ index < Len(inv.slots)
    /\ ClickSlot(index)

NextSession ==
    \/ \E keys \in SessionKeys : GameUpdate(60, keys[1], keys[2], keys[3])
    \/ SaveGame
    \/ LoadGame
    \/ \E k \in DOMAIN SessionFiles : WriteFile(k)
    \/ \E index \in SessionClicked : PanelClick(index)

SpecSession == InitSession /\ [][NextSession]_vars

\* ------------------------------------------------------------------------
\* Properties of save_game and load_game (checked under SpecSession)
\* ------------------------------------------------------------------------
\* the four parts of the session a load replaces
Parts == <<world, player, inv, game.day_timer>>

\* C21: a load_game that does not complete (no save file, or a malformed
\* document) leaves world, player, inventory and day timer as they were,
\* and one that completes leaves an inventory of 27 slots.
C21_LoadAtomic ==
    [][(op'.name = "load_game" /\ calls' = calls + 1)
         => IF op'.ret THEN Len(inv'.slots) = 27 ELSE Parts' = Parts]_vars

C22_RoundTripOf27 ==
    (op.name = "load_game" /\ saved # NoSession /\ Len(saved.inv.slots) = 27)
       => /\ op.ret
          /\ player.x = saved.player.x
          /\ player.y = saved.player.y
          /\ player.vx = saved.player.vx
          /\ player.vy = saved.player.vy
          /\ inv.selected_hotbar = saved.inv.selected_hotbar
          /\ inv.slots = saved.inv.slots
          /\ game.day_timer = saved.day_timer
          /\ ~player.on_ground
          /\ player.facing = 1

\* a load of the save of a session whose player was on the ground, moving
\* and facing left, after the timer had run
C22_Witness ==
    /\ op.name = "load_game"
    /\ saved # NoSession
    /\ saved.player.on_ground
    /\ saved.player.facing = -1
    /\ saved.player.vx # 0
    /\ saved.player.x # 0
    /\ saved.day_timer > 0
    /\ saved.inv.slots[1] = None

\* C30: after a load of the document save_game wrote, the units of every
\* block type in the slots and in the hand are those of the saved session.
C30_NoItemsLost ==
    (op.name = "load_game" /\ saved # NoSession)
       => \A b \in BlockIds : Carried(inv, b) = Carried(saved.inv, b)

====
